---- MODULE Spec2Model ----
(***************************************************************************)
(* microbity: the MIDI player of src/app/midi_player.rs and the double-    *)
(* buffered players of src/app/tone_generator.rs, src/app/pcm_player.rs    *)
(* and src/app/beeper.rs.                                                  *)
(*                                                                         *)
(* Four specifications share the variables:                                *)
(*   SpecTracks   the Tracks scheduler alone, driven by arbitrary          *)
(*                next_midi_event(tick) calls;                             *)
(*   Spec         the MIDI player: the RTC0 (tick) and GPIOTE (button)     *)
(*                interrupt handlers acting on the AppState held in APP;   *)
(*   SpecPipe     the double-buffer pipeline of the tone generator, the    *)
(*                PCM player and the beeper: the startup code, the PWM0    *)
(*                and GPIOTE handlers and the PWM peripheral, interleaved; *)
(*   SpecNoteGen  the NoteGen synthesizer alone, driven by arbitrary       *)
(*                set_note, fill_buffer and button calls.                  *)
(* The variables of the programs a specification does not run keep their   *)
(* initial values.                                                         *)
(*                                                                         *)
(* Rust arrays are functions on 0..n-1, a heapless Vec is a sequence       *)
(* (element i of the Vec is element i+1 of the sequence), Option<T> is a   *)
(* sequence of length at most one.                                         *)
(***************************************************************************)
EXTENDS Integers, Sequences, FiniteSets, TLC

(***************************************************************************)
(* Program constants                                                       *)
(***************************************************************************)
MAX_TRACKS == 3
NUM_CHANNELS == 4
\* u32::MAX.  TLC's integers are 32-bit signed, so the one u32 above 2^31 that the
\* program names is written as its bit pattern, and compared unsigned (LeU32)
U32_MAX == -1
U8_MAX == 255
PWM_CLOCK_FREQ == 524288
MIDDLE_C == 60
\* tone_generator.rs: samples in one buffer, and the note and volume of NoteGen::new
BUFFER_SIZE == 64
NOTE_NEW == 60
VOLUME_NEW == 20
\* the note App::start sets
NOTE_START == 69
\* pcm_player.rs and beeper.rs: samples in one buffer, the PWM clock (DIV_1)
BUF_LEN == 512
PCM_CLOCK_FREQ == 16777216
\* pcm_player.rs: the initial TARGET_SAMPLE_RATE and PWM_REFRESH
PCM_TARGET_SAMPLE_RATE == 16000
PCM_PWM_REFRESH == 3
\* pcm_player.rs: DATA_SAMPLE_RATE, the step of the rate buttons, and the value
\* PWM_COUNTERTOP is declared with
DATA_SAMPLE_RATE == 16000
RATE_STEP == 100
PWM_COUNTERTOP_DECLARED == 1
\* tone_generator.rs: the PWM clock (DIV_4) and SAMPLE_RATE
TONE_PWM_CLOCK_FREQ == 4194304
SAMPLE_RATE == 44000
\* beeper.rs: TARGET_SAMPLE_RATE and REFRESH
BEEPER_TARGET_SAMPLE_RATE == 2700
BEEPER_REFRESH == 5

(***************************************************************************)
(* Bounds of the model                                                     *)
(***************************************************************************)
\* events in one generated event file, all tracks together
MaxEvents == 3
\* largest tick argument of the scheduler harness (besides those of scenario A)
MaxTick == 2
\* calls counted after the scheduler has reported Finished
MaxFinished == 2
\* button interrupts taken in one run of the player
MaxPresses == 1
\* bytes of the generated audio data
MaxAudio == 3
\* pipeline operations kept in the log of a run's beginning
MaxLog == 11
\* calls of the NoteGen harness
MaxCalls == 5
\* button interrupts taken in one run of the PCM player's rate buttons
MaxRatePresses == 161
\* button interrupts served in one run of the tone generator's buttons
MaxServed == 3

VARIABLES
  MIDI_DATA,     \* the event file: a sequence of tracks, each a sequence of events
  tracks,        \* Tracks.tracks: the unread rest of each track iterator
  next_event,    \* Tracks.next_event
  ticks,         \* Tracks.ticks
  next_track,    \* Tracks.next_track
  arg,           \* harness: the tick passed to the last next_midi_event call
  result,        \* harness: what the last next_midi_event call returned
  out,           \* harness: the events returned so far, in order
  n_finished,    \* harness: calls that returned Finished (counted to MaxFinished)
  notes,         \* AppState.notes: the key sounding on each channel, if any
  tick,          \* AppState.tick
  rtc_stopped,   \* RTC0: the STOP task of the tick timer has been triggered
  pwm_running,   \* PWM0..PWM3: sequence 0 has been started and not stopped
  BUFFER,        \* BUFFER0..BUFFER3: the four words each PWM loads
  panic,         \* the panic that halted the program, "" while it runs
  dispatched,    \* history: what the last tick step handed to handle_midi_event
  played,        \* history: where in the file the events handled so far lie
  last_step,     \* history: how the last tick step ended
  rtc_fired,     \* history: the RTC0 interrupts taken
  presses,       \* history: the GPIOTE interrupts taken (counted to MaxPresses)
  program,       \* which player runs: "tone_generator", "pcm_player" or "beeper"
  AUDIO_DATA,    \* pcm_player, beeper: the audio bytes
  note_gen,      \* tone_generator: App.note_gen [note, volume, offset, buffers]
  CURSOR,        \* pcm_player, beeper: CURSOR
  BUFFERS,       \* pcm_player, beeper: BUFFER0 and BUFFER1
  pwm,           \* the PWM peripheral [playing, events_seqend]
  gpiote,        \* the GPIOTE peripheral [events_in]
  rtc,           \* the RTC peripheral [events_tick]
  nvic_pending,  \* NVIC: the interrupts pending
  stored,        \* the statics (APP, PWM, GPIOTE) that hold their value
  stack,         \* the CPU: the frames of main and of the handlers entered
  borrows,       \* the RefCells mutably borrowed
  oplog,         \* history: the first MaxLog pipeline operations
  inv_ops,       \* history: the operations of the last PWM0 invocation
  fill_hist,     \* history: the last two fill_buffer calls since the last set_note
  calls,         \* harness: calls made on the NoteGen (counted to MaxCalls)
  TARGET_SAMPLE_RATE,  \* pcm_player: TARGET_SAMPLE_RATE
  pwm_countertop, \* pcm_player: PWM_COUNTERTOP and the COUNTERTOP register of the PWM
  timing,        \* midi_player: header.timing of the event file
  ticks_per_sec, \* midi_player: AppState.ticks_per_sec
  rtc_regs       \* midi_player: RTC0 [started, prescaler, intenset_tick]

schedVars == <<tracks, next_event, ticks, next_track>>
harnessVars == <<arg, result, out, n_finished>>
appVars == <<notes, tick, rtc_stopped, pwm_running, BUFFER, panic>>
historyVars == <<dispatched, played, last_step, rtc_fired, presses>>
rateVars == <<TARGET_SAMPLE_RATE, pwm_countertop>>
timerVars == <<timing, ticks_per_sec, rtc_regs>>
pipeVars == <<program, AUDIO_DATA, note_gen, CURSOR, BUFFERS, pwm, gpiote, rtc,
              nvic_pending, stored, stack, borrows, oplog, inv_ops, fill_hist, calls,
              rateVars, timerVars>>
vars == <<MIDI_DATA, tracks, next_event, ticks, next_track,
          arg, result, out, n_finished,
          notes, tick, rtc_stopped, pwm_running, BUFFER, panic,
          dispatched, played, last_step, rtc_fired, presses,
          program, AUDIO_DATA, note_gen, CURSOR, BUFFERS, pwm, gpiote, rtc,
          nvic_pending, stored, stack, borrows, oplog, inv_ops, fill_hist, calls,
          TARGET_SAMPLE_RATE, pwm_countertop, timing, ticks_per_sec, rtc_regs>>

(***************************************************************************)
(* Option<T>                                                               *)
(***************************************************************************)
None == <<>>
Some(x) == <<x>>
IsSome(o) == o # <<>>
Unwrap(o) == o[1]

Min(a, b) == IF a <= b THEN a ELSE b

\* unsigned comparison of u32 values
LeU32(a, b) == IF b = U32_MAX THEN TRUE ELSE IF a = U32_MAX THEN FALSE ELSE a <= b

\* u32 addition.  The deltas of the model's files sum to far less than 2^32, so
\* the sum never wraps (nor panics, in a build with overflow checks)
AddU32(a, b) == a + b

(***************************************************************************)
(* Track events (midly::TrackEvent).  `at` is where the event lies in the  *)
(* file, <<track, index>>: a TrackEvent<'static> borrows from MIDI_DATA.   *)
(***************************************************************************)
MidiEv(d, ch, msg, key, vel) ==
  [delta |-> d, kind |-> "Midi", channel |-> ch, message |-> msg,
   key |-> key, vel |-> vel, at |-> <<0, 0>>]
NoteOn(d, ch, key, vel) == MidiEv(d, ch, "NoteOn", key, vel)
NoteOff(d, ch, key) == MidiEv(d, ch, "NoteOff", key, 0)
Controller(d, ch) == MidiEv(d, ch, "Controller", 0, 0)
MetaEv(d) ==
  [delta |-> d, kind |-> "Meta", channel |-> 0, message |-> "Meta",
   key |-> 0, vel |-> 0, at |-> <<0, 0>>]

\* the file as midly::parse hands it out: every event knows its place
Located(file) ==
  [i \in 1..Len(file) |->
     [k \in 1..Len(file[i]) |-> [file[i][k] EXCEPT !.at = <<i - 1, k>>]]]

(***************************************************************************)
(* EventIter::next: the next event of a track, and the iterator after it   *)
(***************************************************************************)
IterNext(iter) ==
  IF iter = <<>>
    THEN [item |-> None, rest |-> <<>>]
    ELSE [item |-> Some(Head(iter)), rest |-> Tail(iter)]

(***************************************************************************)
(* enum NextEvent                                                          *)
(***************************************************************************)
Event(e) == [tag |-> "Event", event |-> Some(e)]
Finished == [tag |-> "Finished", event |-> None]
Pending == [tag |-> "Pending", event |-> None]
NoCall == [tag |-> "NoCall", event |-> None]

(***************************************************************************)
(* struct Tracks, as a record [tracks, next_event, ticks, next_track]      *)
(***************************************************************************)
Tracks_new(iter) ==
  LET n == Min(Len(iter), MAX_TRACKS)
  IN  [tracks |-> [i \in 1..n |-> IterNext(iter[i]).rest],
       next_event |-> [i \in 0..(MAX_TRACKS - 1) |->
                         IF i < n THEN IterNext(iter[i + 1]).item ELSE None],
       ticks |-> [i \in 0..(MAX_TRACKS - 1) |-> 0],
       next_track |-> None]

\* `event_tick <= earliest_tick`: the comparison that makes track i the candidate
Earlier(event_tick, earliest_tick) == LeU32(event_tick, earliest_tick)

\* `self.ticks[i] + delta`: the absolute tick of the pending event of track i
event_tick_no_delta(self, i) == self.ticks[i]
event_tick_of(self, i) == AddU32(self.ticks[i], Unwrap(self.next_event[i]).delta)

\* the loop of update_next_track from track i on: <<earliest_tick, earliest_track>>
RECURSIVE update_next_track_loop(_, _, _, _)
update_next_track_loop(self, i, earliest_tick, earliest_track) ==
  IF i >= Len(self.tracks)
    THEN <<earliest_tick, earliest_track>>
    ELSE IF IsSome(self.next_event[i]) /\ Earlier(event_tick_of(self, i), earliest_tick)
      THEN update_next_track_loop(self, i + 1, event_tick_of(self, i), Some(i))
      ELSE update_next_track_loop(self, i + 1, earliest_tick, earliest_track)

Tracks_update_next_track_stale(self) == self
Tracks_update_next_track(self) ==
  LET r == update_next_track_loop(self, 0, U32_MAX, None)
  IN  [self EXCEPT !.next_track =
         IF IsSome(r[2]) THEN Some(<<Unwrap(r[2]), r[1]>>) ELSE None]

\* Tracks::next_event: [self |-> the scheduler after the call, ret |-> Option<event>]
Tracks_next_event(self) ==
  IF self.next_track = None
    THEN [self |-> self, ret |-> None]
    ELSE LET i == Unwrap(self.next_track)[1]
             due == Unwrap(self.next_track)[2]
             event == Unwrap(self.next_event[i])
             nx == IterNext(self.tracks[i + 1])
             taken == [self EXCEPT !.next_track = None,
                                   !.next_event[i] = nx.item,
                                   !.tracks[i + 1] = nx.rest,
                                   !.ticks[i] = due]
         IN  [self |-> Tracks_update_next_track(taken), ret |-> Some(event)]

\* `next_tick > tick`: the earliest pending event is not due yet
NotDue_off_by_one(next_tick, now) == next_tick > now + 1
NotDue_inclusive(next_tick, now) == next_tick >= now
NotDue(next_tick, now) == next_tick > now

\* `if let TrackEventKind::Midi { .. } = event.kind`
IsMidi_meta(event) == event.kind = "Meta"
IsMidi(event) == event.kind = "Midi"

\* what next_midi_event returns when the earliest pending event is not due
ReturnWhenNotDue_finished == Finished
ReturnWhenNotDue == Pending

\* what next_midi_event returns when next_track is None
ReturnWhenNoTrack == Finished

\* Tracks::next_midi_event: [self |-> the scheduler after the call, ret |-> NextEvent]
RECURSIVE Tracks_next_midi_event(_, _)
Tracks_next_midi_event(self, now) ==
  IF self.next_track = None
    THEN [self |-> self, ret |-> ReturnWhenNoTrack]
    ELSE IF NotDue(Unwrap(self.next_track)[2], now)
      THEN [self |-> self, ret |-> ReturnWhenNotDue]
      ELSE LET r == Tracks_next_event(self)
               event == Unwrap(r.ret)
           IN  IF IsMidi(event)
                 THEN [self |-> r.self, ret |-> Event(event)]
                 ELSE Tracks_next_midi_event(r.self, now)

\* parse_midi: the scheduler built from the file's tracks, its cache filled
parse_midi_no_update(file) == Tracks_new(Located(file))
parse_midi(file) == Tracks_update_next_track(Tracks_new(Located(file)))

(***************************************************************************)
(* Event files                                                             *)
(***************************************************************************)
Deltas == {0, 1}
SchedEvents == {NoteOn(d, 0, MIDDLE_C, 64) : d \in Deltas} \cup {MetaEv(d) : d \in Deltas}

SeqsOfLen(S, k) == [1..k -> S]
SeqsUpTo(S, m) == UNION {SeqsOfLen(S, k) : k \in 0..m}

\* the files of n tracks holding at most m events of S altogether
RECURSIVE FilesOf(_, _, _)
FilesOf(S, n, m) ==
  IF n = 0
    THEN {<<>>}
    ELSE UNION {{<<t>> \o f : f \in FilesOf(S, n - 1, m - Len(t))} : t \in SeqsUpTo(S, m)}

\* scenario A: track 0 has a note-on at tick 0 and a note-off at tick 10,
\* track 1 has a note-on at tick 5
ScenarioA ==
  << <<NoteOn(0, 0, MIDDLE_C, 64), NoteOff(10, 0, MIDDLE_C)>>,
     <<NoteOn(5, 1, 64, 64)>> >>

\* the files the scheduler is run on: at most MAX_TRACKS tracks with MaxEvents
\* events, one track more than the scheduler takes with one event less, scenario A
SchedFiles ==
  UNION {FilesOf(SchedEvents, n, MaxEvents) : n \in 0..MAX_TRACKS}
    \cup FilesOf(SchedEvents, MAX_TRACKS + 1, MaxEvents - 1)
    \cup {ScenarioA}

TickArgs == (0..MaxTick) \cup {5, 10}

(***************************************************************************)
(* The player: struct AppState with its peripherals, as a record           *)
(* [tracks, notes, tick, rtc_stopped, pwm_running, BUFFER, panic] and the  *)
(* history fields [dispatched, played, last_step]                          *)
(***************************************************************************)
Channels == 0..(NUM_CHANNELS - 1)

\* note_to_buf's countertop, (PWM_CLOCK_FREQ as f32 / freq) as u16, for key 0..255:
\* BASE_FREQ multiplied or divided |key - 60| times by EXP2_ONE_TWELFTH, every
\* product and quotient rounded to f32, the last quotient truncated
COUNTERTOP ==
  <<64126, 60527, 57130, 53924, 50897, 48040, 45344, 42799, 40397, 38130, 35990, 33970,
    32063, 30263, 28565, 26962, 25448, 24020, 22672, 21399, 20198, 19065, 17995, 16985,
    16031, 15131, 14282, 13481, 12724, 12010, 11336, 10699, 10099, 9532, 8997, 8492,
    8015, 7565, 7141, 6740, 6362, 6005, 5668, 5349, 5049, 4766, 4498, 4246,
    4007, 3782, 3570, 3370, 3181, 3002, 2834, 2674, 2524, 2383, 2249, 2123,
    2003, 1891, 1785, 1685, 1590, 1501, 1417, 1337, 1262, 1191, 1124, 1061,
    1001, 945, 892, 842, 795, 750, 708, 668, 631, 595, 562, 530,
    500, 472, 446, 421, 397, 375, 354, 334, 315, 297, 281, 265,
    250, 236, 223, 210, 198, 187, 177, 167, 157, 148, 140, 132,
    125, 118, 111, 105, 99, 93, 88, 83, 78, 74, 70, 66,
    62, 59, 55, 52, 49, 46, 44, 41, 39, 37, 35, 33,
    31, 29, 27, 26, 24, 23, 22, 20, 19, 18, 17, 16,
    15, 14, 13, 13, 12, 11, 11, 10, 9, 9, 8, 8,
    7, 7, 6, 6, 6, 5, 5, 5, 4, 4, 4, 4,
    3, 3, 3, 3, 3, 2, 2, 2, 2, 2, 2, 2,
    1, 1, 1, 1, 1, 1, 1, 1, 1, 1, 1, 1,
    0, 0, 0, 0, 0, 0, 0, 0, 0, 0, 0, 0,
    0, 0, 0, 0, 0, 0, 0, 0, 0, 0, 0, 0,
    0, 0, 0, 0, 0, 0, 0, 0, 0, 0, 0, 0,
    0, 0, 0, 0, 0, 0, 0, 0, 0, 0, 0, 0,
    0, 0, 0, 0, 0, 0, 0, 0, 0, 0, 0, 0,
    0, 0, 0, 0>>

note_to_buf_middle_c(key) ==
  <<COUNTERTOP[MIDDLE_C + 1] \div 2, COUNTERTOP[MIDDLE_C + 1] \div 2,
    COUNTERTOP[MIDDLE_C + 1] \div 2, COUNTERTOP[MIDDLE_C + 1]>>
note_to_buf(key) ==
  LET countertop == COUNTERTOP[key + 1]
      half_duty == countertop \div 2
  IN  <<half_duty, half_duty, half_duty, countertop>>

\* a panic halts the program (panic_probe): the first one is kept
Panic(app, why) == IF app.panic = "" THEN [app EXCEPT !.panic = why] ELSE app

\* Peripherals::start_seq, Peripherals::stop_seq
start_seq_noop(app, i) == app
start_seq(app, i) == [app EXCEPT !.pwm_running[i] = TRUE]
stop_seq_noop(app, i) == app
stop_seq(app, i) == [app EXCEPT !.pwm_running[i] = FALSE]

\* AppState::update_seq
AppState_update_seq(app, i) ==
  IF i \notin Channels
    THEN Panic(app, "invalid pwm index")
    ELSE IF IsSome(app.notes[i])
      THEN start_seq([app EXCEPT !.BUFFER[i] = note_to_buf(Unwrap(app.notes[i]))], i)
      ELSE stop_seq(app, i)

\* AppState::stop: the STOP task of the tick timer, then that of each PWM
AppState_stop_rtc_only(app) == [app EXCEPT !.rtc_stopped = TRUE]
AppState_stop_toggle(app) ==
  [app EXCEPT !.rtc_stopped = ~app.rtc_stopped,
              !.pwm_running = [i \in Channels |-> FALSE]]
AppState_stop(app) ==
  [app EXCEPT !.rtc_stopped = TRUE,
              !.pwm_running = [i \in Channels |-> FALSE]]

\* `assert!(channel < 4)`
ChannelOk_off_by_one(channel) == channel <= NUM_CHANNELS
ChannelOk(channel) == channel < NUM_CHANNELS

\* `self.notes[channel as usize] = ...`: a checked index
SetNote(app, channel, note) ==
  IF channel \in DOMAIN app.notes
    THEN [app EXCEPT !.notes[channel] = note]
    ELSE Panic(app, "index out of bounds")

\* AppState::handle_note_on
AppState_handle_note_on(app, channel, key) ==
  IF ~ChannelOk(channel)
    THEN Panic(app, "assertion failed: channel < 4")
    ELSE LET set == SetNote(app, channel, Some(key))
         IN  IF set.panic # "" THEN set ELSE AppState_update_seq(set, channel)

\* AppState::handle_note_off
AppState_handle_note_off_matching(app, channel, key) ==
  IF ~ChannelOk(channel)
    THEN Panic(app, "assertion failed: channel < 4")
    ELSE IF app.notes[channel] = Some(key)
      THEN AppState_update_seq(SetNote(app, channel, None), channel)
      ELSE app
AppState_handle_note_off(app, channel, key) ==
  IF ~ChannelOk(channel)
    THEN Panic(app, "assertion failed: channel < 4")
    ELSE LET set == SetNote(app, channel, None)
         IN  IF set.panic # "" THEN set ELSE AppState_update_seq(set, channel)

\* AppState::handle_midi_event
AppState_handle_midi_event_all_off(app, event) ==
  IF event.kind = "Midi" /\ event.message = "NoteOn" /\ event.vel # 0
    THEN AppState_handle_note_on(app, event.channel, event.key)
    ELSE AppState_handle_note_off(app, event.channel, event.key)
AppState_handle_midi_event(app, event) ==
  IF event.kind = "Midi" /\ event.message = "NoteOff"
    THEN AppState_handle_note_off(app, event.channel, event.key)
    ELSE IF event.kind = "Midi" /\ event.message = "NoteOn" /\ event.vel = 0
      THEN AppState_handle_note_off(app, event.channel, event.key)
      ELSE IF event.kind = "Midi" /\ event.message = "NoteOn"
        THEN AppState_handle_note_on(app, event.channel, event.key)
        ELSE app

\* the state a handler may touch, as the history records it
Audible(app) ==
  [notes |-> app.notes, pwm_running |-> app.pwm_running, BUFFER |-> app.BUFFER]

\* the `NextEvent::Event(event) => self.handle_midi_event(event)` arm, with its
\* entry in the history
Dispatch(app, event) ==
  LET after == AppState_handle_midi_event(app, event)
  IN  [after EXCEPT
         !.dispatched = Append(app.dispatched,
                          [event |-> event, before |-> Audible(app),
                           after |-> Audible(after), panic |-> after.panic]),
         !.played = Append(app.played, event.at)]

\* the loop of AppState::step
RECURSIVE step_loop(_)
step_loop(app) ==
  LET r == Tracks_next_midi_event(app.tracks, app.tick)
      popped == [app EXCEPT !.tracks = r.self]
  IN  IF r.ret.tag = "Event"
        THEN LET handled == Dispatch(popped, Unwrap(r.ret.event))
             IN  IF handled.panic # ""
                   THEN [handled EXCEPT !.last_step = "Panic"]
                   ELSE step_loop(handled)
        ELSE IF r.ret.tag = "Pending"
          THEN [popped EXCEPT !.last_step = "Pending"]
          ELSE AppState_stop([popped EXCEPT !.notes = [i \in Channels |-> None],
                                            !.last_step = "Finished"])

\* `self.tick += 1`
StepTick_stuck(t) == t
StepTick(t) == t + 1

\* AppState::step
AppState_step(app) ==
  step_loop([app EXCEPT !.tick = StepTick(app.tick), !.dispatched = <<>>])

\* u8 `+= 1` and `-= 1`: out of range, a build with overflow checks panics and a
\* build without them wraps
AddU8(app, key, d, overflow_checks) ==
  IF key + d \in 0..U8_MAX
    THEN [app |-> app, value |-> key + d]
    ELSE IF overflow_checks
      THEN [app |-> Panic(app, IF d < 0 THEN "attempt to subtract with overflow"
                                        ELSE "attempt to add with overflow"),
            value |-> key]
      ELSE [app |-> app, value |-> (key + d) % (U8_MAX + 1)]

\* `*app.notes[0].get_or_insert(60) += d; app.update_seq(0);`
ButtonPressed(app, d, overflow_checks) ==
  LET key == IF IsSome(app.notes[0]) THEN Unwrap(app.notes[0]) ELSE MIDDLE_C
      sum == AddU8(app, key, d, overflow_checks)
  IN  IF sum.app.panic # ""
        THEN sum.app
        ELSE AppState_update_seq([sum.app EXCEPT !.notes[0] = Some(sum.value)], 0)

\* the body of the GPIOTE handler, given the two event flags it reads
GPIOTE_handler(app, in0, in1, overflow_checks) ==
  LET a == IF in0 THEN ButtonPressed(app, 1, overflow_checks) ELSE app
  IN  IF a.panic # "" \/ ~in1 THEN a ELSE ButtonPressed(a, -1, overflow_checks)


\* AppState::new, after parse_midi: no note sounds, the buffers are zeroed
AppInit ==
  /\ notes = [i \in Channels |-> None]
  /\ tick = 0
  /\ rtc_stopped = FALSE
  /\ pwm_running = [i \in Channels |-> FALSE]
  /\ BUFFER = [i \in Channels |-> <<0, 0, 0, 0>>]
  /\ panic = ""
  /\ dispatched = <<>>
  /\ played = <<>>
  /\ last_step = "NoStep"
  /\ rtc_fired = 0
  /\ presses = 0

(***************************************************************************)
(* tone_generator.rs: struct NoteGen, as a record                          *)
(* [note, volume, offset, buffers]                                         *)
(***************************************************************************)
Max(a, b) == IF a >= b THEN a ELSE b
Buffers == 0..1

\* NoteGen::period, (SAMPLE_RATE as f32 / self.freq()) as usize, for note 0..255:
\* freq is BASE_FREQ * EXP2_ONE_TWELFTH.powi(note - 60), powi by repeated squaring
\* (micromath), every product and quotient rounded to f32, the quotient truncated
PERIOD ==
  <<5381, 5079, 4794, 4525, 4271, 4031, 3805, 3591, 3390, 3200, 3020, 2850, 2690, 2539, 2397, 2262,
    2135, 2015, 1902, 1795, 1695, 1600, 1510, 1425, 1345, 1269, 1198, 1131, 1067, 1007, 951, 897,
    847, 800, 755, 712, 672, 634, 599, 565, 533, 503, 475, 448, 423, 400, 377, 356,
    336, 317, 299, 282, 266, 251, 237, 224, 211, 200, 188, 178, 168, 158, 149, 141,
    133, 125, 118, 112, 105, 99, 94, 89, 84, 79, 74, 70, 66, 62, 59, 56,
    52, 49, 47, 44, 42, 39, 37, 35, 33, 31, 29, 28, 26, 24, 23, 22,
    21, 19, 18, 17, 16, 15, 14, 14, 13, 12, 11, 11, 10, 9, 9, 8,
    8, 7, 7, 7, 6, 6, 5, 5, 5, 4, 4, 4, 4, 3, 3, 3,
    3, 3, 2, 2, 2, 2, 2, 2, 2, 1, 1, 1, 1, 1, 1, 1,
    1, 1, 1, 1, 1, 0, 0, 0, 0, 0, 0, 0, 0, 0, 0, 0,
    0, 0, 0, 0, 0, 0, 0, 0, 0, 0, 0, 0, 0, 0, 0, 0,
    0, 0, 0, 0, 0, 0, 0, 0, 0, 0, 0, 0, 0, 0, 0, 0,
    0, 0, 0, 0, 0, 0, 0, 0, 0, 0, 0, 0, 0, 0, 0, 0,
    0, 0, 0, 0, 0, 0, 0, 0, 0, 0, 0, 0, 0, 0, 0, 0,
    0, 0, 0, 0, 0, 0, 0, 0, 0, 0, 0, 0, 0, 0, 0, 0,
    0, 0, 0, 0, 0, 0, 0, 0, 0, 0, 0, 0, 0, 0, 0, 0>>

\* The samples of fill_buffer for volume 20, as runs: WAVE_RUNS(note) lists
\* <<n, sample>> where the sample changes, n being (offset + i) % period, for every
\* note.  sample is
\*   ((sine_waveform(n / period) * vol + 1.0) / 2.0 * PWM_COUNTER_TOP) as u16
\* in f32, with PWM_COUNTER_TOP = 95, vol = 20 / 127 and micromath's sine.
WAVE_RUNS(note) ==
  CASE note = 0 ->
      <<<<0, 47>>, <<58, 48>>, <<174, 49>>, <<293, 50>>, <<418, 51>>, <<553, 52>>,
        <<707, 53>>, <<901, 54>>, <<1790, 53>>, <<1984, 52>>, <<2139, 51>>,
        <<2274, 50>>, <<2398, 49>>, <<2517, 48>>, <<2633, 47>>, <<2749, 46>>,
        <<2865, 45>>, <<2984, 44>>, <<3108, 43>>, <<3243, 42>>, <<3398, 41>>,
        <<3592, 40>>, <<4481, 41>>, <<4675, 42>>, <<4829, 43>>, <<4964, 44>>,
        <<5089, 45>>, <<5208, 46>>, <<5324, 47>>>>
    [] note = 1 ->
      <<<<0, 47>>, <<55, 48>>, <<165, 49>>, <<277, 50>>, <<394, 51>>, <<522, 52>>,
        <<667, 53>>, <<851, 54>>, <<1690, 53>>, <<1873, 52>>, <<2019, 51>>,
        <<2146, 50>>, <<2264, 49>>, <<2376, 48>>, <<2485, 47>>, <<2595, 46>>,
        <<2704, 45>>, <<2816, 44>>, <<2934, 43>>, <<3061, 42>>, <<3207, 41>>,
        <<3390, 40>>, <<4229, 41>>, <<4413, 42>>, <<4558, 43>>, <<4686, 44>>,
        <<4803, 45>>, <<4915, 46>>, <<5025, 47>>>>
    [] note = 2 ->
      <<<<0, 47>>, <<52, 48>>, <<155, 49>>, <<261, 50>>, <<372, 51>>, <<493, 52>>,
        <<630, 53>>, <<803, 54>>, <<1595, 53>>, <<1768, 52>>, <<1905, 51>>,
        <<2026, 50>>, <<2137, 49>>, <<2243, 48>>, <<2346, 47>>, <<2449, 46>>,
        <<2552, 45>>, <<2658, 44>>, <<2769, 43>>, <<2890, 42>>, <<3027, 41>>,
        <<3200, 40>>, <<3992, 41>>, <<4165, 42>>, <<4302, 43>>, <<4423, 44>>,
        <<4534, 45>>, <<4640, 46>>, <<4743, 47>>>>
    [] note = 3 ->
      <<<<0, 47>>, <<49, 48>>, <<147, 49>>, <<246, 50>>, <<351, 51>>, <<465, 52>>,
        <<595, 53>>, <<758, 54>>, <<1506, 53>>, <<1669, 52>>, <<1799, 51>>,
        <<1912, 50>>, <<2017, 49>>, <<2117, 48>>, <<2214, 47>>, <<2312, 46>>,
        <<2409, 45>>, <<2509, 44>>, <<2614, 43>>, <<2727, 42>>, <<2857, 41>>,
        <<3020, 40>>, <<3768, 41>>, <<3931, 42>>, <<4061, 43>>, <<4175, 44>>,
        <<4280, 45>>, <<4379, 46>>, <<4477, 47>>>>
    [] note = 4 ->
      <<<<0, 47>>, <<46, 48>>, <<138, 49>>, <<233, 50>>, <<332, 51>>, <<439, 52>>,
        <<561, 53>>, <<715, 54>>, <<1421, 53>>, <<1575, 52>>, <<1698, 51>>,
        <<1805, 50>>, <<1904, 49>>, <<1998, 48>>, <<2090, 47>>, <<2182, 46>>,
        <<2274, 45>>, <<2368, 44>>, <<2467, 43>>, <<2574, 42>>, <<2697, 41>>,
        <<2851, 40>>, <<3557, 41>>, <<3711, 42>>, <<3833, 43>>, <<3940, 44>>,
        <<4039, 45>>, <<4134, 46>>, <<4226, 47>>>>
    [] note = 5 ->
      <<<<0, 47>>, <<44, 48>>, <<131, 49>>, <<220, 50>>, <<313, 51>>, <<414, 52>>,
        <<530, 53>>, <<675, 54>>, <<1341, 53>>, <<1487, 52>>, <<1602, 51>>,
        <<1704, 50>>, <<1797, 49>>, <<1886, 48>>, <<1973, 47>>, <<2059, 46>>,
        <<2146, 45>>, <<2235, 44>>, <<2328, 43>>, <<2430, 42>>, <<2545, 41>>,
        <<2691, 40>>, <<3357, 41>>, <<3502, 42>>, <<3618, 43>>, <<3719, 44>>,
        <<3812, 45>>, <<3901, 46>>, <<3988, 47>>>>
    [] note = 6 ->
      <<<<0, 47>>, <<41, 48>>, <<123, 49>>, <<207, 50>>, <<295, 51>>, <<391, 52>>,
        <<500, 53>>, <<637, 54>>, <<1266, 53>>, <<1403, 52>>, <<1512, 51>>,
        <<1608, 50>>, <<1696, 49>>, <<1780, 48>>, <<1862, 47>>, <<1944, 46>>,
        <<2026, 45>>, <<2110, 44>>, <<2198, 43>>, <<2294, 42>>, <<2403, 41>>,
        <<2540, 40>>, <<3169, 41>>, <<3306, 42>>, <<3415, 43>>, <<3511, 44>>,
        <<3599, 45>>, <<3683, 46>>, <<3765, 47>>>>
    [] note = 7 ->
      <<<<0, 47>>, <<39, 48>>, <<117, 49>>, <<196, 50>>, <<279, 51>>, <<369, 52>>,
        <<472, 53>>, <<602, 54>>, <<1195, 53>>, <<1325, 52>>, <<1427, 51>>,
        <<1518, 50>>, <<1601, 49>>, <<1680, 48>>, <<1757, 47>>, <<1835, 46>>,
        <<1912, 45>>, <<1991, 44>>, <<2074, 43>>, <<2165, 42>>, <<2267, 41>>,
        <<2397, 40>>, <<2990, 41>>, <<3120, 42>>, <<3223, 43>>, <<3313, 44>>,
        <<3396, 45>>, <<3475, 46>>, <<3553, 47>>>>
    [] note = 8 ->
      <<<<0, 47>>, <<37, 48>>, <<110, 49>>, <<185, 50>>, <<263, 51>>, <<348, 52>>,
        <<446, 53>>, <<568, 54>>, <<1128, 53>>, <<1250, 52>>, <<1348, 51>>,
        <<1433, 50>>, <<1511, 49>>, <<1586, 48>>, <<1659, 47>>, <<1732, 46>>,
        <<1805, 45>>, <<1880, 44>>, <<1958, 43>>, <<2043, 42>>, <<2141, 41>>,
        <<2263, 40>>, <<2823, 41>>, <<2945, 42>>, <<3043, 43>>, <<3128, 44>>,
        <<3206, 45>>, <<3281, 46>>, <<3354, 47>>>>
    [] note = 9 ->
      <<<<0, 47>>, <<35, 48>>, <<104, 49>>, <<174, 50>>, <<249, 51>>, <<329, 52>>,
        <<421, 53>>, <<536, 54>>, <<1065, 53>>, <<1180, 52>>, <<1272, 51>>,
        <<1352, 50>>, <<1427, 49>>, <<1497, 48>>, <<1566, 47>>, <<1635, 46>>,
        <<1704, 45>>, <<1774, 44>>, <<1849, 43>>, <<1929, 42>>, <<2021, 41>>,
        <<2136, 40>>, <<2665, 41>>, <<2780, 42>>, <<2872, 43>>, <<2952, 44>>,
        <<3027, 45>>, <<3097, 46>>, <<3166, 47>>>>
    [] note = 10 ->
      <<<<0, 47>>, <<33, 48>>, <<98, 49>>, <<165, 50>>, <<235, 51>>, <<310, 52>>,
        <<397, 53>>, <<506, 54>>, <<1005, 53>>, <<1114, 52>>, <<1201, 51>>,
        <<1276, 50>>, <<1346, 49>>, <<1413, 48>>, <<1478, 47>>, <<1543, 46>>,
        <<1608, 45>>, <<1675, 44>>, <<1745, 43>>, <<1820, 42>>, <<1907, 41>>,
        <<2016, 40>>, <<2515, 41>>, <<2624, 42>>, <<2711, 43>>, <<2786, 44>>,
        <<2856, 45>>, <<2923, 46>>, <<2988, 47>>>>
    [] note = 11 ->
      <<<<0, 47>>, <<31, 48>>, <<93, 49>>, <<155, 50>>, <<221, 51>>, <<293, 52>>,
        <<375, 53>>, <<478, 54>>, <<948, 53>>, <<1051, 52>>, <<1133, 51>>,
        <<1205, 50>>, <<1271, 49>>, <<1333, 48>>, <<1395, 47>>, <<1456, 46>>,
        <<1518, 45>>, <<1580, 44>>, <<1646, 43>>, <<1718, 42>>, <<1800, 41>>,
        <<1903, 40>>, <<2373, 41>>, <<2476, 42>>, <<2558, 43>>, <<2630, 44>>,
        <<2696, 45>>, <<2758, 46>>, <<2820, 47>>>>
    [] note = 12 ->
      <<<<0, 47>>, <<29, 48>>, <<87, 49>>, <<147, 50>>, <<209, 51>>, <<277, 52>>,
        <<354, 53>>, <<451, 54>>, <<895, 53>>, <<992, 52>>, <<1069, 51>>,
        <<1137, 50>>, <<1199, 49>>, <<1259, 48>>, <<1317, 47>>, <<1374, 46>>,
        <<1432, 45>>, <<1492, 44>>, <<1554, 43>>, <<1622, 42>>, <<1699, 41>>,
        <<1796, 40>>, <<2240, 41>>, <<2337, 42>>, <<2414, 43>>, <<2482, 44>>,
        <<2544, 45>>, <<2604, 46>>, <<2662, 47>>>>
    [] note = 13 ->
      <<<<0, 47>>, <<28, 48>>, <<83, 49>>, <<139, 50>>, <<197, 51>>, <<261, 52>>,
        <<334, 53>>, <<426, 54>>, <<845, 53>>, <<937, 52>>, <<1009, 51>>,
        <<1073, 50>>, <<1132, 49>>, <<1188, 48>>, <<1243, 47>>, <<1297, 46>>,
        <<1352, 45>>, <<1408, 44>>, <<1467, 43>>, <<1531, 42>>, <<1603, 41>>,
        <<1695, 40>>, <<2114, 41>>, <<2206, 42>>, <<2279, 43>>, <<2343, 44>>,
        <<2401, 45>>, <<2457, 46>>, <<2512, 47>>>>
    [] note = 14 ->
      <<<<0, 47>>, <<26, 48>>, <<78, 49>>, <<131, 50>>, <<186, 51>>, <<247, 52>>,
        <<315, 53>>, <<402, 54>>, <<798, 53>>, <<884, 52>>, <<953, 51>>,
        <<1013, 50>>, <<1069, 49>>, <<1122, 48>>, <<1173, 47>>, <<1225, 46>>,
        <<1276, 45>>, <<1329, 44>>, <<1385, 43>>, <<1445, 42>>, <<1514, 41>>,
        <<1600, 40>>, <<1996, 41>>, <<2083, 42>>, <<2151, 43>>, <<2212, 44>>,
        <<2267, 45>>, <<2320, 46>>, <<2372, 47>>>>
    [] note = 15 ->
      <<<<0, 47>>, <<25, 48>>, <<74, 49>>, <<123, 50>>, <<176, 51>>, <<233, 52>>,
        <<297, 53>>, <<379, 54>>, <<753, 53>>, <<835, 52>>, <<899, 51>>, <<956, 50>>,
        <<1009, 49>>, <<1058, 48>>, <<1107, 47>>, <<1156, 46>>, <<1205, 45>>,
        <<1254, 44>>, <<1307, 43>>, <<1364, 42>>, <<1428, 41>>, <<1510, 40>>,
        <<1884, 41>>, <<1966, 42>>, <<2030, 43>>, <<2087, 44>>, <<2140, 45>>,
        <<2189, 46>>, <<2238, 47>>>>
    [] note = 16 ->
      <<<<0, 47>>, <<23, 48>>, <<69, 49>>, <<117, 50>>, <<166, 51>>, <<220, 52>>,
        <<281, 53>>, <<358, 54>>, <<711, 53>>, <<788, 52>>, <<849, 51>>, <<902, 50>>,
        <<952, 49>>, <<999, 48>>, <<1045, 47>>, <<1091, 46>>, <<1137, 45>>,
        <<1184, 44>>, <<1234, 43>>, <<1287, 42>>, <<1348, 41>>, <<1425, 40>>,
        <<1778, 41>>, <<1855, 42>>, <<1916, 43>>, <<1970, 44>>, <<2019, 45>>,
        <<2067, 46>>, <<2113, 47>>>>
    [] note = 17 ->
      <<<<0, 47>>, <<22, 48>>, <<66, 49>>, <<110, 50>>, <<157, 51>>, <<207, 52>>,
        <<265, 53>>, <<338, 54>>, <<671, 53>>, <<743, 52>>, <<801, 51>>, <<852, 50>>,
        <<898, 49>>, <<943, 48>>, <<986, 47>>, <<1030, 46>>, <<1073, 45>>,
        <<1118, 44>>, <<1164, 43>>, <<1215, 42>>, <<1273, 41>>, <<1345, 40>>,
        <<1678, 41>>, <<1751, 42>>, <<1809, 43>>, <<1859, 44>>, <<1906, 45>>,
        <<1950, 46>>, <<1994, 47>>>>
    [] note = 18 ->
      <<<<0, 47>>, <<21, 48>>, <<62, 49>>, <<104, 50>>, <<148, 51>>, <<196, 52>>,
        <<250, 53>>, <<319, 54>>, <<633, 53>>, <<702, 52>>, <<756, 51>>, <<804, 50>>,
        <<848, 49>>, <<890, 48>>, <<931, 47>>, <<972, 46>>, <<1013, 45>>,
        <<1055, 44>>, <<1099, 43>>, <<1147, 42>>, <<1201, 41>>, <<1270, 40>>,
        <<1584, 41>>, <<1653, 42>>, <<1707, 43>>, <<1755, 44>>, <<1799, 45>>,
        <<1841, 46>>, <<1882, 47>>>>
    [] note = 19 ->
      <<<<0, 47>>, <<20, 48>>, <<58, 49>>, <<98, 50>>, <<140, 51>>, <<185, 52>>,
        <<236, 53>>, <<301, 54>>, <<598, 53>>, <<662, 52>>, <<714, 51>>, <<759, 50>>,
        <<800, 49>>, <<840, 48>>, <<879, 47>>, <<917, 46>>, <<956, 45>>, <<996, 44>>,
        <<1037, 43>>, <<1082, 42>>, <<1134, 41>>, <<1198, 40>>, <<1495, 41>>,
        <<1560, 42>>, <<1611, 43>>, <<1656, 44>>, <<1698, 45>>, <<1738, 46>>,
        <<1776, 47>>>>
    [] note = 20 ->
      <<<<0, 47>>, <<19, 48>>, <<55, 49>>, <<93, 50>>, <<132, 51>>, <<174, 52>>,
        <<223, 53>>, <<284, 54>>, <<564, 53>>, <<625, 52>>, <<674, 51>>, <<717, 50>>,
        <<756, 49>>, <<793, 48>>, <<830, 47>>, <<866, 46>>, <<903, 45>>, <<940, 44>>,
        <<979, 43>>, <<1022, 42>>, <<1071, 41>>, <<1132, 40>>, <<1412, 41>>,
        <<1473, 42>>, <<1522, 43>>, <<1564, 44>>, <<1603, 45>>, <<1641, 46>>,
        <<1677, 47>>>>
    [] note = 21 ->
      <<<<0, 47>>, <<18, 48>>, <<52, 49>>, <<87, 50>>, <<125, 51>>, <<165, 52>>,
        <<211, 53>>, <<268, 54>>, <<533, 53>>, <<590, 52>>, <<636, 51>>, <<676, 50>>,
        <<714, 49>>, <<749, 48>>, <<783, 47>>, <<818, 46>>, <<852, 45>>, <<887, 44>>,
        <<925, 43>>, <<965, 42>>, <<1011, 41>>, <<1068, 40>>, <<1333, 41>>,
        <<1390, 42>>, <<1436, 43>>, <<1476, 44>>, <<1514, 45>>, <<1549, 46>>,
        <<1583, 47>>>>
    [] note = 22 ->
      <<<<0, 47>>, <<17, 48>>, <<49, 49>>, <<83, 50>>, <<118, 51>>, <<155, 52>>,
        <<199, 53>>, <<253, 54>>, <<503, 53>>, <<557, 52>>, <<601, 51>>, <<638, 50>>,
        <<673, 49>>, <<707, 48>>, <<739, 47>>, <<772, 46>>, <<804, 45>>, <<838, 44>>,
        <<873, 43>>, <<910, 42>>, <<954, 41>>, <<1008, 40>>, <<1258, 41>>,
        <<1312, 42>>, <<1356, 43>>, <<1393, 44>>, <<1428, 45>>, <<1462, 46>>,
        <<1494, 47>>>>
    [] note = 23 ->
      <<<<0, 47>>, <<16, 48>>, <<47, 49>>, <<78, 50>>, <<111, 51>>, <<147, 52>>,
        <<188, 53>>, <<239, 54>>, <<474, 53>>, <<526, 52>>, <<567, 51>>, <<603, 50>>,
        <<636, 49>>, <<667, 48>>, <<698, 47>>, <<728, 46>>, <<759, 45>>, <<790, 44>>,
        <<823, 43>>, <<859, 42>>, <<900, 41>>, <<952, 40>>, <<1187, 41>>,
        <<1238, 42>>, <<1279, 43>>, <<1315, 44>>, <<1348, 45>>, <<1379, 46>>,
        <<1410, 47>>>>
    [] note = 24 ->
      <<<<0, 47>>, <<15, 48>>, <<44, 49>>, <<74, 50>>, <<105, 51>>, <<139, 52>>,
        <<177, 53>>, <<226, 54>>, <<448, 53>>, <<496, 52>>, <<535, 51>>, <<569, 50>>,
        <<600, 49>>, <<630, 48>>, <<659, 47>>, <<687, 46>>, <<716, 45>>, <<746, 44>>,
        <<777, 43>>, <<811, 42>>, <<850, 41>>, <<898, 40>>, <<1120, 41>>,
        <<1169, 42>>, <<1207, 43>>, <<1241, 44>>, <<1272, 45>>, <<1302, 46>>,
        <<1331, 47>>>>
    [] note = 25 ->
      <<<<0, 47>>, <<14, 48>>, <<42, 49>>, <<69, 50>>, <<99, 51>>, <<131, 52>>,
        <<167, 53>>, <<213, 54>>, <<423, 53>>, <<468, 52>>, <<505, 51>>, <<537, 50>>,
        <<566, 49>>, <<594, 48>>, <<621, 47>>, <<649, 46>>, <<676, 45>>, <<704, 44>>,
        <<733, 43>>, <<765, 42>>, <<802, 41>>, <<847, 40>>, <<1057, 41>>,
        <<1103, 42>>, <<1139, 43>>, <<1171, 44>>, <<1201, 45>>, <<1229, 46>>,
        <<1256, 47>>>>
    [] note = 26 ->
      <<<<0, 47>>, <<13, 48>>, <<39, 49>>, <<66, 50>>, <<93, 51>>, <<123, 52>>,
        <<158, 53>>, <<201, 54>>, <<399, 53>>, <<442, 52>>, <<477, 51>>, <<507, 50>>,
        <<534, 49>>, <<561, 48>>, <<587, 47>>, <<612, 46>>, <<638, 45>>, <<665, 44>>,
        <<692, 43>>, <<722, 42>>, <<757, 41>>, <<800, 40>>, <<998, 41>>,
        <<1041, 42>>, <<1076, 43>>, <<1106, 44>>, <<1133, 45>>, <<1160, 46>>,
        <<1186, 47>>>>
    [] note = 27 ->
      <<<<0, 47>>, <<13, 48>>, <<37, 49>>, <<62, 50>>, <<88, 51>>, <<117, 52>>,
        <<149, 53>>, <<190, 54>>, <<377, 53>>, <<418, 52>>, <<450, 51>>, <<478, 50>>,
        <<505, 49>>, <<529, 48>>, <<554, 47>>, <<578, 46>>, <<603, 45>>, <<627, 44>>,
        <<654, 43>>, <<682, 42>>, <<714, 41>>, <<755, 40>>, <<942, 41>>, <<983, 42>>,
        <<1015, 43>>, <<1044, 44>>, <<1070, 45>>, <<1095, 46>>, <<1119, 47>>>>
    [] note = 28 ->
      <<<<0, 47>>, <<12, 48>>, <<35, 49>>, <<59, 50>>, <<83, 51>>, <<110, 52>>,
        <<141, 53>>, <<179, 54>>, <<355, 53>>, <<394, 52>>, <<424, 51>>, <<451, 50>>,
        <<476, 49>>, <<500, 48>>, <<523, 47>>, <<545, 46>>, <<568, 45>>, <<592, 44>>,
        <<617, 43>>, <<644, 42>>, <<674, 41>>, <<713, 40>>, <<889, 41>>, <<927, 42>>,
        <<958, 43>>, <<985, 44>>, <<1009, 45>>, <<1033, 46>>, <<1056, 47>>>>
    [] note = 29 ->
      <<<<0, 47>>, <<11, 48>>, <<33, 49>>, <<55, 50>>, <<79, 51>>, <<104, 52>>,
        <<133, 53>>, <<169, 54>>, <<335, 53>>, <<372, 52>>, <<401, 51>>, <<426, 50>>,
        <<449, 49>>, <<471, 48>>, <<493, 47>>, <<515, 46>>, <<537, 45>>, <<559, 44>>,
        <<582, 43>>, <<607, 42>>, <<636, 41>>, <<673, 40>>, <<839, 41>>, <<875, 42>>,
        <<904, 43>>, <<929, 44>>, <<953, 45>>, <<975, 46>>, <<997, 47>>>>
    [] note = 30 ->
      <<<<0, 47>>, <<11, 48>>, <<31, 49>>, <<52, 50>>, <<74, 51>>, <<98, 52>>,
        <<125, 53>>, <<160, 54>>, <<317, 53>>, <<351, 52>>, <<378, 51>>, <<402, 50>>,
        <<424, 49>>, <<445, 48>>, <<466, 47>>, <<486, 46>>, <<507, 45>>, <<528, 44>>,
        <<550, 43>>, <<574, 42>>, <<601, 41>>, <<635, 40>>, <<792, 41>>, <<827, 42>>,
        <<854, 43>>, <<878, 44>>, <<900, 45>>, <<921, 46>>, <<941, 47>>>>
    [] note = 31 ->
      <<<<0, 47>>, <<10, 48>>, <<29, 49>>, <<49, 50>>, <<70, 51>>, <<93, 52>>,
        <<118, 53>>, <<151, 54>>, <<299, 53>>, <<331, 52>>, <<357, 51>>, <<379, 50>>,
        <<400, 49>>, <<420, 48>>, <<439, 47>>, <<459, 46>>, <<478, 45>>, <<498, 44>>,
        <<519, 43>>, <<541, 42>>, <<567, 41>>, <<599, 40>>, <<747, 41>>, <<780, 42>>,
        <<805, 43>>, <<828, 44>>, <<849, 45>>, <<869, 46>>, <<888, 47>>>>
    [] note = 32 ->
      <<<<0, 47>>, <<10, 48>>, <<28, 49>>, <<47, 50>>, <<66, 51>>, <<87, 52>>,
        <<112, 53>>, <<142, 54>>, <<282, 53>>, <<313, 52>>, <<337, 51>>, <<358, 50>>,
        <<378, 49>>, <<397, 48>>, <<415, 47>>, <<433, 46>>, <<451, 45>>, <<470, 44>>,
        <<490, 43>>, <<511, 42>>, <<535, 41>>, <<566, 40>>, <<706, 41>>, <<736, 42>>,
        <<761, 43>>, <<782, 44>>, <<801, 45>>, <<820, 46>>, <<838, 47>>>>
    [] note = 33 ->
      <<<<0, 47>>, <<9, 48>>, <<26, 49>>, <<44, 50>>, <<63, 51>>, <<83, 52>>,
        <<106, 53>>, <<134, 54>>, <<267, 53>>, <<295, 52>>, <<318, 51>>, <<338, 50>>,
        <<357, 49>>, <<375, 48>>, <<392, 47>>, <<409, 46>>, <<426, 45>>, <<444, 44>>,
        <<463, 43>>, <<483, 42>>, <<506, 41>>, <<534, 40>>, <<667, 41>>, <<695, 42>>,
        <<718, 43>>, <<738, 44>>, <<757, 45>>, <<775, 46>>, <<792, 47>>>>
    [] note = 34 ->
      <<<<0, 47>>, <<9, 48>>, <<25, 49>>, <<42, 50>>, <<59, 51>>, <<78, 52>>,
        <<100, 53>>, <<127, 54>>, <<252, 53>>, <<279, 52>>, <<301, 51>>, <<319, 50>>,
        <<337, 49>>, <<354, 48>>, <<370, 47>>, <<386, 46>>, <<402, 45>>, <<419, 44>>,
        <<437, 43>>, <<455, 42>>, <<477, 41>>, <<504, 40>>, <<629, 41>>, <<656, 42>>,
        <<678, 43>>, <<697, 44>>, <<714, 45>>, <<731, 46>>, <<747, 47>>>>
    [] note = 35 ->
      <<<<0, 47>>, <<8, 48>>, <<24, 49>>, <<39, 50>>, <<56, 51>>, <<74, 52>>,
        <<94, 53>>, <<120, 54>>, <<237, 53>>, <<263, 52>>, <<283, 51>>, <<301, 50>>,
        <<318, 49>>, <<333, 48>>, <<349, 47>>, <<364, 46>>, <<380, 45>>, <<395, 44>>,
        <<412, 43>>, <<430, 42>>, <<450, 41>>, <<476, 40>>, <<593, 41>>, <<619, 42>>,
        <<639, 43>>, <<657, 44>>, <<674, 45>>, <<689, 46>>, <<705, 47>>>>
    [] note = 36 ->
      <<<<0, 47>>, <<8, 48>>, <<22, 49>>, <<37, 50>>, <<53, 51>>, <<69, 52>>,
        <<89, 53>>, <<113, 54>>, <<224, 53>>, <<248, 52>>, <<268, 51>>, <<284, 50>>,
        <<300, 49>>, <<315, 48>>, <<329, 47>>, <<344, 46>>, <<358, 45>>, <<373, 44>>,
        <<389, 43>>, <<405, 42>>, <<425, 41>>, <<449, 40>>, <<560, 41>>, <<584, 42>>,
        <<604, 43>>, <<620, 44>>, <<636, 45>>, <<651, 46>>, <<665, 47>>>>
    [] note = 37 ->
      <<<<0, 47>>, <<7, 48>>, <<21, 49>>, <<35, 50>>, <<50, 51>>, <<66, 52>>,
        <<84, 53>>, <<107, 54>>, <<211, 53>>, <<234, 52>>, <<252, 51>>, <<268, 50>>,
        <<283, 49>>, <<297, 48>>, <<311, 47>>, <<324, 46>>, <<338, 45>>, <<352, 44>>,
        <<367, 43>>, <<383, 42>>, <<401, 41>>, <<424, 40>>, <<528, 41>>, <<551, 42>>,
        <<569, 43>>, <<585, 44>>, <<600, 45>>, <<614, 46>>, <<628, 47>>>>
    [] note = 38 ->
      <<<<0, 47>>, <<7, 48>>, <<20, 49>>, <<33, 50>>, <<47, 51>>, <<62, 52>>,
        <<79, 53>>, <<101, 54>>, <<200, 53>>, <<221, 52>>, <<239, 51>>, <<254, 50>>,
        <<267, 49>>, <<281, 48>>, <<294, 47>>, <<306, 46>>, <<319, 45>>, <<333, 44>>,
        <<346, 43>>, <<361, 42>>, <<379, 41>>, <<400, 40>>, <<499, 41>>, <<521, 42>>,
        <<538, 43>>, <<553, 44>>, <<567, 45>>, <<580, 46>>, <<593, 47>>>>
    [] note = 39 ->
      <<<<0, 47>>, <<7, 48>>, <<19, 49>>, <<31, 50>>, <<44, 51>>, <<58, 52>>,
        <<75, 53>>, <<95, 54>>, <<188, 53>>, <<209, 52>>, <<225, 51>>, <<239, 50>>,
        <<252, 49>>, <<265, 48>>, <<277, 47>>, <<289, 46>>, <<301, 45>>, <<314, 44>>,
        <<327, 43>>, <<341, 42>>, <<357, 41>>, <<378, 40>>, <<471, 41>>, <<491, 42>>,
        <<508, 43>>, <<522, 44>>, <<535, 45>>, <<547, 46>>, <<559, 47>>>>
    [] note = 40 ->
      <<<<0, 47>>, <<6, 48>>, <<18, 49>>, <<29, 50>>, <<42, 51>>, <<55, 52>>,
        <<70, 53>>, <<90, 54>>, <<178, 53>>, <<197, 52>>, <<212, 51>>, <<226, 50>>,
        <<238, 49>>, <<250, 48>>, <<261, 47>>, <<273, 46>>, <<284, 45>>, <<296, 44>>,
        <<308, 43>>, <<322, 42>>, <<337, 41>>, <<356, 40>>, <<444, 41>>, <<464, 42>>,
        <<479, 43>>, <<492, 44>>, <<505, 45>>, <<516, 46>>, <<528, 47>>>>
    [] note = 41 ->
      <<<<0, 47>>, <<6, 48>>, <<17, 49>>, <<28, 50>>, <<39, 51>>, <<52, 52>>,
        <<67, 53>>, <<85, 54>>, <<168, 53>>, <<186, 52>>, <<200, 51>>, <<213, 50>>,
        <<225, 49>>, <<236, 48>>, <<247, 47>>, <<257, 46>>, <<268, 45>>, <<279, 44>>,
        <<291, 43>>, <<304, 42>>, <<318, 41>>, <<336, 40>>, <<419, 41>>, <<437, 42>>,
        <<452, 43>>, <<465, 44>>, <<476, 45>>, <<487, 46>>, <<498, 47>>>>
    [] note = 42 ->
      <<<<0, 47>>, <<6, 48>>, <<16, 49>>, <<26, 50>>, <<37, 51>>, <<49, 52>>,
        <<63, 53>>, <<80, 54>>, <<158, 53>>, <<176, 52>>, <<189, 51>>, <<201, 50>>,
        <<212, 49>>, <<223, 48>>, <<233, 47>>, <<243, 46>>, <<253, 45>>, <<264, 44>>,
        <<275, 43>>, <<287, 42>>, <<300, 41>>, <<318, 40>>, <<396, 41>>, <<413, 42>>,
        <<427, 43>>, <<439, 44>>, <<450, 45>>, <<460, 46>>, <<470, 47>>>>
    [] note = 43 ->
      <<<<0, 47>>, <<5, 48>>, <<15, 49>>, <<25, 50>>, <<35, 51>>, <<46, 52>>,
        <<59, 53>>, <<75, 54>>, <<150, 53>>, <<166, 52>>, <<179, 51>>, <<190, 50>>,
        <<200, 49>>, <<210, 48>>, <<220, 47>>, <<229, 46>>, <<239, 45>>, <<249, 44>>,
        <<259, 43>>, <<270, 42>>, <<283, 41>>, <<299, 40>>, <<374, 41>>, <<390, 42>>,
        <<403, 43>>, <<414, 44>>, <<424, 45>>, <<434, 46>>, <<444, 47>>>>
    [] note = 44 ->
      <<<<0, 47>>, <<5, 48>>, <<14, 49>>, <<23, 50>>, <<33, 51>>, <<44, 52>>,
        <<56, 53>>, <<71, 54>>, <<141, 53>>, <<156, 52>>, <<169, 51>>, <<179, 50>>,
        <<189, 49>>, <<198, 48>>, <<207, 47>>, <<217, 46>>, <<226, 45>>, <<235, 44>>,
        <<245, 43>>, <<255, 42>>, <<268, 41>>, <<283, 40>>, <<353, 41>>, <<368, 42>>,
        <<380, 43>>, <<391, 44>>, <<401, 45>>, <<410, 46>>, <<419, 47>>>>
    [] note = 45 ->
      <<<<0, 47>>, <<5, 48>>, <<13, 49>>, <<22, 50>>, <<32, 51>>, <<42, 52>>,
        <<53, 53>>, <<67, 54>>, <<134, 53>>, <<148, 52>>, <<159, 51>>, <<169, 50>>,
        <<179, 49>>, <<188, 48>>, <<196, 47>>, <<205, 46>>, <<213, 45>>, <<222, 44>>,
        <<232, 43>>, <<242, 42>>, <<253, 41>>, <<267, 40>>, <<334, 41>>, <<348, 42>>,
        <<359, 43>>, <<369, 44>>, <<379, 45>>, <<388, 46>>, <<396, 47>>>>
    [] note = 46 ->
      <<<<0, 47>>, <<5, 48>>, <<13, 49>>, <<21, 50>>, <<30, 51>>, <<39, 52>>,
        <<50, 53>>, <<64, 54>>, <<126, 53>>, <<140, 52>>, <<150, 51>>, <<160, 50>>,
        <<169, 49>>, <<177, 48>>, <<185, 47>>, <<193, 46>>, <<201, 45>>, <<209, 44>>,
        <<218, 43>>, <<228, 42>>, <<238, 41>>, <<252, 40>>, <<314, 41>>, <<328, 42>>,
        <<339, 43>>, <<348, 44>>, <<357, 45>>, <<365, 46>>, <<373, 47>>>>
    [] note = 47 ->
      <<<<0, 47>>, <<4, 48>>, <<12, 49>>, <<20, 50>>, <<28, 51>>, <<37, 52>>,
        <<47, 53>>, <<60, 54>>, <<119, 53>>, <<132, 52>>, <<142, 51>>, <<151, 50>>,
        <<159, 49>>, <<167, 48>>, <<175, 47>>, <<182, 46>>, <<190, 45>>, <<198, 44>>,
        <<206, 43>>, <<215, 42>>, <<225, 41>>, <<238, 40>>, <<297, 41>>, <<310, 42>>,
        <<320, 43>>, <<329, 44>>, <<337, 45>>, <<345, 46>>, <<353, 47>>>>
    [] note = 48 ->
      <<<<0, 47>>, <<4, 48>>, <<11, 49>>, <<19, 50>>, <<27, 51>>, <<35, 52>>,
        <<45, 53>>, <<57, 54>>, <<112, 53>>, <<124, 52>>, <<134, 51>>, <<142, 50>>,
        <<150, 49>>, <<158, 48>>, <<165, 47>>, <<172, 46>>, <<179, 45>>, <<187, 44>>,
        <<195, 43>>, <<203, 42>>, <<213, 41>>, <<225, 40>>, <<280, 41>>, <<292, 42>>,
        <<302, 43>>, <<310, 44>>, <<318, 45>>, <<326, 46>>, <<333, 47>>>>
    [] note = 49 ->
      <<<<0, 47>>, <<4, 48>>, <<11, 49>>, <<18, 50>>, <<25, 51>>, <<33, 52>>,
        <<42, 53>>, <<54, 54>>, <<106, 53>>, <<117, 52>>, <<126, 51>>, <<134, 50>>,
        <<142, 49>>, <<149, 48>>, <<156, 47>>, <<162, 46>>, <<169, 45>>, <<176, 44>>,
        <<184, 43>>, <<192, 42>>, <<201, 41>>, <<212, 40>>, <<264, 41>>, <<276, 42>>,
        <<285, 43>>, <<293, 44>>, <<300, 45>>, <<307, 46>>, <<314, 47>>>>
    [] note = 50 ->
      <<<<0, 47>>, <<4, 48>>, <<10, 49>>, <<17, 50>>, <<24, 51>>, <<31, 52>>,
        <<40, 53>>, <<51, 54>>, <<100, 53>>, <<111, 52>>, <<119, 51>>, <<127, 50>>,
        <<134, 49>>, <<140, 48>>, <<147, 47>>, <<153, 46>>, <<160, 45>>, <<166, 44>>,
        <<173, 43>>, <<181, 42>>, <<189, 41>>, <<200, 40>>, <<249, 41>>, <<260, 42>>,
        <<269, 43>>, <<276, 44>>, <<283, 45>>, <<290, 46>>, <<296, 47>>>>
    [] note = 51 ->
      <<<<0, 47>>, <<4, 48>>, <<10, 49>>, <<16, 50>>, <<22, 51>>, <<29, 52>>,
        <<38, 53>>, <<48, 54>>, <<94, 53>>, <<104, 52>>, <<113, 51>>, <<120, 50>>,
        <<126, 49>>, <<132, 48>>, <<138, 47>>, <<145, 46>>, <<151, 45>>, <<157, 44>>,
        <<163, 43>>, <<170, 42>>, <<179, 41>>, <<189, 40>>, <<235, 41>>, <<245, 42>>,
        <<254, 43>>, <<261, 44>>, <<267, 45>>, <<273, 46>>, <<279, 47>>>>
    [] note = 52 ->
      <<<<0, 47>>, <<3, 48>>, <<9, 49>>, <<15, 50>>, <<21, 51>>, <<28, 52>>,
        <<35, 53>>, <<45, 54>>, <<89, 53>>, <<99, 52>>, <<106, 51>>, <<113, 50>>,
        <<119, 49>>, <<125, 48>>, <<131, 47>>, <<136, 46>>, <<142, 45>>, <<148, 44>>,
        <<154, 43>>, <<161, 42>>, <<168, 41>>, <<178, 40>>, <<222, 41>>, <<232, 42>>,
        <<239, 43>>, <<246, 44>>, <<252, 45>>, <<258, 46>>, <<264, 47>>>>
    [] note = 53 ->
      <<<<0, 47>>, <<3, 48>>, <<9, 49>>, <<14, 50>>, <<20, 51>>, <<26, 52>>,
        <<33, 53>>, <<43, 54>>, <<84, 53>>, <<93, 52>>, <<100, 51>>, <<107, 50>>,
        <<112, 49>>, <<118, 48>>, <<123, 47>>, <<129, 46>>, <<134, 45>>, <<140, 44>>,
        <<145, 43>>, <<152, 42>>, <<159, 41>>, <<168, 40>>, <<209, 41>>, <<219, 42>>,
        <<226, 43>>, <<232, 44>>, <<238, 45>>, <<243, 46>>, <<249, 47>>>>
    [] note = 54 ->
      <<<<0, 47>>, <<3, 48>>, <<8, 49>>, <<13, 50>>, <<19, 51>>, <<25, 52>>,
        <<32, 53>>, <<40, 54>>, <<79, 53>>, <<88, 52>>, <<95, 51>>, <<101, 50>>,
        <<106, 49>>, <<111, 48>>, <<116, 47>>, <<122, 46>>, <<127, 45>>, <<132, 44>>,
        <<137, 43>>, <<143, 42>>, <<150, 41>>, <<159, 40>>, <<198, 41>>, <<206, 42>>,
        <<213, 43>>, <<219, 44>>, <<225, 45>>, <<230, 46>>, <<235, 47>>>>
    [] note = 55 ->
      <<<<0, 47>>, <<3, 48>>, <<8, 49>>, <<13, 50>>, <<18, 51>>, <<23, 52>>,
        <<30, 53>>, <<38, 54>>, <<75, 53>>, <<83, 52>>, <<90, 51>>, <<95, 50>>,
        <<100, 49>>, <<105, 48>>, <<110, 47>>, <<115, 46>>, <<120, 45>>, <<125, 44>>,
        <<130, 43>>, <<135, 42>>, <<142, 41>>, <<150, 40>>, <<187, 41>>, <<195, 42>>,
        <<202, 43>>, <<207, 44>>, <<212, 45>>, <<217, 46>>, <<222, 47>>>>
    [] note = 56 ->
      <<<<0, 47>>, <<3, 48>>, <<7, 49>>, <<12, 50>>, <<17, 51>>, <<22, 52>>,
        <<28, 53>>, <<36, 54>>, <<71, 53>>, <<78, 52>>, <<84, 51>>, <<90, 50>>,
        <<95, 49>>, <<99, 48>>, <<104, 47>>, <<108, 46>>, <<113, 45>>, <<117, 44>>,
        <<122, 43>>, <<128, 42>>, <<134, 41>>, <<141, 40>>, <<176, 41>>, <<184, 42>>,
        <<190, 43>>, <<195, 44>>, <<200, 45>>, <<205, 46>>, <<209, 47>>>>
    [] note = 57 ->
      <<<<0, 47>>, <<3, 48>>, <<7, 49>>, <<11, 50>>, <<16, 51>>, <<21, 52>>,
        <<27, 53>>, <<34, 54>>, <<67, 53>>, <<74, 52>>, <<80, 51>>, <<85, 50>>,
        <<90, 49>>, <<94, 48>>, <<98, 47>>, <<103, 46>>, <<107, 45>>, <<111, 44>>,
        <<116, 43>>, <<121, 42>>, <<127, 41>>, <<134, 40>>, <<167, 41>>, <<174, 42>>,
        <<180, 43>>, <<185, 44>>, <<190, 45>>, <<194, 46>>, <<198, 47>>>>
    [] note = 58 ->
      <<<<0, 47>>, <<3, 48>>, <<7, 49>>, <<11, 50>>, <<15, 51>>, <<20, 52>>,
        <<25, 53>>, <<32, 54>>, <<63, 53>>, <<70, 52>>, <<75, 51>>, <<80, 50>>,
        <<84, 49>>, <<88, 48>>, <<92, 47>>, <<97, 46>>, <<101, 45>>, <<105, 44>>,
        <<109, 43>>, <<114, 42>>, <<119, 41>>, <<126, 40>>, <<157, 41>>, <<164, 42>>,
        <<169, 43>>, <<174, 44>>, <<178, 45>>, <<182, 46>>, <<186, 47>>>>
    [] note = 59 ->
      <<<<0, 47>>, <<2, 48>>, <<6, 49>>, <<10, 50>>, <<14, 51>>, <<19, 52>>,
        <<24, 53>>, <<30, 54>>, <<60, 53>>, <<66, 52>>, <<71, 51>>, <<76, 50>>,
        <<80, 49>>, <<84, 48>>, <<88, 47>>, <<91, 46>>, <<95, 45>>, <<99, 44>>,
        <<103, 43>>, <<108, 42>>, <<113, 41>>, <<119, 40>>, <<149, 41>>, <<155, 42>>,
        <<160, 43>>, <<165, 44>>, <<169, 45>>, <<173, 46>>, <<177, 47>>>>
    [] note = 60 ->
      <<<<0, 47>>, <<2, 48>>, <<6, 49>>, <<10, 50>>, <<14, 51>>, <<18, 52>>,
        <<23, 53>>, <<29, 54>>, <<56, 53>>, <<62, 52>>, <<67, 51>>, <<71, 50>>,
        <<75, 49>>, <<79, 48>>, <<83, 47>>, <<86, 46>>, <<90, 45>>, <<94, 44>>,
        <<98, 43>>, <<102, 42>>, <<107, 41>>, <<113, 40>>, <<140, 41>>, <<146, 42>>,
        <<151, 43>>, <<155, 44>>, <<159, 45>>, <<163, 46>>, <<167, 47>>>>
    [] note = 61 ->
      <<<<0, 47>>, <<2, 48>>, <<6, 49>>, <<9, 50>>, <<13, 51>>, <<17, 52>>,
        <<21, 53>>, <<27, 54>>, <<53, 53>>, <<59, 52>>, <<63, 51>>, <<67, 50>>,
        <<71, 49>>, <<74, 48>>, <<78, 47>>, <<81, 46>>, <<85, 45>>, <<88, 44>>,
        <<92, 43>>, <<96, 42>>, <<100, 41>>, <<106, 40>>, <<132, 41>>, <<138, 42>>,
        <<142, 43>>, <<146, 44>>, <<150, 45>>, <<153, 46>>, <<157, 47>>>>
    [] note = 62 ->
      <<<<0, 47>>, <<2, 48>>, <<5, 49>>, <<9, 50>>, <<12, 51>>, <<16, 52>>,
        <<20, 53>>, <<25, 54>>, <<50, 53>>, <<55, 52>>, <<60, 51>>, <<63, 50>>,
        <<67, 49>>, <<70, 48>>, <<73, 47>>, <<77, 46>>, <<80, 45>>, <<83, 44>>,
        <<87, 43>>, <<90, 42>>, <<95, 41>>, <<100, 40>>, <<125, 41>>, <<130, 42>>,
        <<134, 43>>, <<138, 44>>, <<141, 45>>, <<145, 46>>, <<148, 47>>>>
    [] note = 63 ->
      <<<<0, 47>>, <<2, 48>>, <<5, 49>>, <<8, 50>>, <<11, 51>>, <<15, 52>>,
        <<19, 53>>, <<24, 54>>, <<47, 53>>, <<52, 52>>, <<57, 51>>, <<60, 50>>,
        <<63, 49>>, <<66, 48>>, <<69, 47>>, <<73, 46>>, <<76, 45>>, <<79, 44>>,
        <<82, 43>>, <<85, 42>>, <<90, 41>>, <<95, 40>>, <<118, 41>>, <<123, 42>>,
        <<127, 43>>, <<131, 44>>, <<134, 45>>, <<137, 46>>, <<140, 47>>>>
    [] note = 64 ->
      <<<<0, 47>>, <<2, 48>>, <<5, 49>>, <<8, 50>>, <<11, 51>>, <<14, 52>>,
        <<18, 53>>, <<23, 54>>, <<45, 53>>, <<50, 52>>, <<53, 51>>, <<57, 50>>,
        <<60, 49>>, <<63, 48>>, <<66, 47>>, <<68, 46>>, <<71, 45>>, <<74, 44>>,
        <<77, 43>>, <<81, 42>>, <<84, 41>>, <<89, 40>>, <<111, 41>>, <<116, 42>>,
        <<120, 43>>, <<123, 44>>, <<126, 45>>, <<129, 46>>, <<132, 47>>>>
    [] note = 65 ->
      <<<<0, 47>>, <<2, 48>>, <<5, 49>>, <<7, 50>>, <<10, 51>>, <<13, 52>>,
        <<17, 53>>, <<21, 54>>, <<42, 53>>, <<47, 52>>, <<50, 51>>, <<53, 50>>,
        <<56, 49>>, <<59, 48>>, <<62, 47>>, <<64, 46>>, <<67, 45>>, <<70, 44>>,
        <<73, 43>>, <<76, 42>>, <<79, 41>>, <<84, 40>>, <<105, 41>>, <<109, 42>>,
        <<113, 43>>, <<116, 44>>, <<119, 45>>, <<121, 46>>, <<124, 47>>>>
    [] note = 66 ->
      <<<<0, 47>>, <<2, 48>>, <<4, 49>>, <<7, 50>>, <<10, 51>>, <<13, 52>>,
        <<16, 53>>, <<20, 54>>, <<40, 53>>, <<44, 52>>, <<47, 51>>, <<50, 50>>,
        <<53, 49>>, <<56, 48>>, <<58, 47>>, <<61, 46>>, <<63, 45>>, <<66, 44>>,
        <<69, 43>>, <<72, 42>>, <<75, 41>>, <<79, 40>>, <<99, 41>>, <<103, 42>>,
        <<106, 43>>, <<109, 44>>, <<112, 45>>, <<115, 46>>, <<117, 47>>>>
    [] note = 67 ->
      <<<<0, 47>>, <<2, 48>>, <<4, 49>>, <<7, 50>>, <<9, 51>>, <<12, 52>>,
        <<15, 53>>, <<19, 54>>, <<38, 53>>, <<42, 52>>, <<45, 51>>, <<48, 50>>,
        <<50, 49>>, <<53, 48>>, <<55, 47>>, <<58, 46>>, <<60, 45>>, <<63, 44>>,
        <<65, 43>>, <<68, 42>>, <<71, 41>>, <<75, 40>>, <<94, 41>>, <<98, 42>>,
        <<101, 43>>, <<104, 44>>, <<106, 45>>, <<109, 46>>, <<111, 47>>>>
    [] note = 68 ->
      <<<<0, 47>>, <<2, 48>>, <<4, 49>>, <<6, 50>>, <<9, 51>>, <<11, 52>>,
        <<14, 53>>, <<18, 54>>, <<35, 53>>, <<39, 52>>, <<42, 51>>, <<45, 50>>,
        <<47, 49>>, <<50, 48>>, <<52, 47>>, <<54, 46>>, <<56, 45>>, <<59, 44>>,
        <<61, 43>>, <<64, 42>>, <<67, 41>>, <<71, 40>>, <<88, 41>>, <<92, 42>>,
        <<95, 43>>, <<97, 44>>, <<100, 45>>, <<102, 46>>, <<104, 47>>>>
    [] note = 69 ->
      <<<<0, 47>>, <<2, 48>>, <<4, 49>>, <<6, 50>>, <<8, 51>>, <<11, 52>>,
        <<13, 53>>, <<17, 54>>, <<33, 53>>, <<37, 52>>, <<40, 51>>, <<42, 50>>,
        <<45, 49>>, <<47, 48>>, <<49, 47>>, <<51, 46>>, <<53, 45>>, <<55, 44>>,
        <<58, 43>>, <<60, 42>>, <<63, 41>>, <<67, 40>>, <<83, 41>>, <<87, 42>>,
        <<89, 43>>, <<92, 44>>, <<94, 45>>, <<96, 46>>, <<98, 47>>>>
    [] note = 70 ->
      <<<<0, 47>>, <<2, 48>>, <<4, 49>>, <<6, 50>>, <<8, 51>>, <<10, 52>>,
        <<13, 53>>, <<16, 54>>, <<32, 53>>, <<35, 52>>, <<38, 51>>, <<40, 50>>,
        <<42, 49>>, <<44, 48>>, <<46, 47>>, <<49, 46>>, <<51, 45>>, <<53, 44>>,
        <<55, 43>>, <<57, 42>>, <<60, 41>>, <<63, 40>>, <<79, 41>>, <<82, 42>>,
        <<85, 43>>, <<87, 44>>, <<89, 45>>, <<91, 46>>, <<93, 47>>>>
    [] note = 71 ->
      <<<<0, 47>>, <<1, 48>>, <<3, 49>>, <<5, 50>>, <<7, 51>>, <<10, 52>>,
        <<12, 53>>, <<15, 54>>, <<30, 53>>, <<33, 52>>, <<36, 51>>, <<38, 50>>,
        <<40, 49>>, <<42, 48>>, <<44, 47>>, <<46, 46>>, <<48, 45>>, <<50, 44>>,
        <<52, 43>>, <<54, 42>>, <<57, 41>>, <<60, 40>>, <<75, 41>>, <<78, 42>>,
        <<80, 43>>, <<83, 44>>, <<85, 45>>, <<87, 46>>>>
    [] note = 72 ->
      <<<<0, 47>>, <<1, 48>>, <<3, 49>>, <<5, 50>>, <<7, 51>>, <<9, 52>>, <<12, 53>>,
        <<15, 54>>, <<28, 53>>, <<31, 52>>, <<34, 51>>, <<36, 50>>, <<38, 49>>,
        <<40, 48>>, <<42, 47>>, <<43, 46>>, <<45, 45>>, <<47, 44>>, <<49, 43>>,
        <<51, 42>>, <<54, 41>>, <<57, 40>>, <<70, 41>>, <<73, 42>>, <<76, 43>>,
        <<78, 44>>, <<80, 45>>, <<82, 46>>>>
    [] note = 73 ->
      <<<<0, 47>>, <<1, 48>>, <<3, 49>>, <<5, 50>>, <<7, 51>>, <<9, 52>>, <<11, 53>>,
        <<14, 54>>, <<27, 53>>, <<30, 52>>, <<32, 51>>, <<34, 50>>, <<36, 49>>,
        <<37, 48>>, <<39, 47>>, <<41, 46>>, <<43, 45>>, <<44, 44>>, <<46, 43>>,
        <<48, 42>>, <<50, 41>>, <<53, 40>>, <<66, 41>>, <<69, 42>>, <<71, 43>>,
        <<73, 44>>, <<75, 45>>, <<77, 46>>>>
    [] note = 74 ->
      <<<<0, 47>>, <<1, 48>>, <<3, 49>>, <<5, 50>>, <<6, 51>>, <<8, 52>>, <<10, 53>>,
        <<13, 54>>, <<25, 53>>, <<28, 52>>, <<30, 51>>, <<32, 50>>, <<33, 49>>,
        <<35, 48>>, <<37, 47>>, <<38, 46>>, <<40, 45>>, <<42, 44>>, <<43, 43>>,
        <<45, 42>>, <<47, 41>>, <<50, 40>>, <<62, 41>>, <<65, 42>>, <<67, 43>>,
        <<69, 44>>, <<70, 45>>, <<72, 46>>>>
    [] note = 75 ->
      <<<<0, 47>>, <<1, 48>>, <<3, 49>>, <<4, 50>>, <<6, 51>>, <<8, 52>>, <<10, 53>>,
        <<12, 54>>, <<24, 53>>, <<26, 52>>, <<28, 51>>, <<30, 50>>, <<32, 49>>,
        <<33, 48>>, <<35, 47>>, <<36, 46>>, <<38, 45>>, <<39, 44>>, <<41, 43>>,
        <<43, 42>>, <<45, 41>>, <<47, 40>>, <<59, 41>>, <<61, 42>>, <<63, 43>>,
        <<65, 44>>, <<67, 45>>, <<68, 46>>>>
    [] note = 76 ->
      <<<<0, 47>>, <<1, 48>>, <<3, 49>>, <<4, 50>>, <<6, 51>>, <<7, 52>>, <<9, 53>>,
        <<12, 54>>, <<22, 53>>, <<25, 52>>, <<27, 51>>, <<28, 50>>, <<30, 49>>,
        <<31, 48>>, <<33, 47>>, <<34, 46>>, <<36, 45>>, <<37, 44>>, <<39, 43>>,
        <<40, 42>>, <<42, 41>>, <<45, 40>>, <<55, 41>>, <<58, 42>>, <<60, 43>>,
        <<61, 44>>, <<63, 45>>, <<64, 46>>>>
    [] note = 77 ->
      <<<<0, 47>>, <<1, 48>>, <<3, 49>>, <<4, 50>>, <<5, 51>>, <<7, 52>>, <<9, 53>>,
        <<11, 54>>, <<21, 53>>, <<23, 52>>, <<25, 51>>, <<27, 50>>, <<28, 49>>,
        <<29, 48>>, <<31, 47>>, <<32, 46>>, <<34, 45>>, <<35, 44>>, <<36, 43>>,
        <<38, 42>>, <<40, 41>>, <<42, 40>>, <<52, 41>>, <<54, 42>>, <<56, 43>>,
        <<58, 44>>, <<59, 45>>, <<60, 46>>>>
    [] note = 78 ->
      <<<<0, 47>>, <<1, 48>>, <<2, 49>>, <<4, 50>>, <<5, 51>>, <<7, 52>>, <<8, 53>>,
        <<10, 54>>, <<20, 53>>, <<22, 52>>, <<24, 51>>, <<25, 50>>, <<27, 49>>,
        <<28, 48>>, <<29, 47>>, <<31, 46>>, <<32, 45>>, <<33, 44>>, <<35, 43>>,
        <<36, 42>>, <<38, 41>>, <<40, 40>>, <<50, 41>>, <<52, 42>>, <<53, 43>>,
        <<55, 44>>, <<56, 45>>, <<58, 46>>>>
    [] note = 79 ->
      <<<<0, 47>>, <<1, 48>>, <<2, 49>>, <<4, 50>>, <<5, 51>>, <<6, 52>>, <<8, 53>>,
        <<10, 54>>, <<19, 53>>, <<21, 52>>, <<23, 51>>, <<24, 50>>, <<25, 49>>,
        <<27, 48>>, <<28, 47>>, <<29, 46>>, <<30, 45>>, <<32, 44>>, <<33, 43>>,
        <<34, 42>>, <<36, 41>>, <<38, 40>>, <<47, 41>>, <<49, 42>>, <<51, 43>>,
        <<52, 44>>, <<53, 45>>, <<55, 46>>>>
    [] note = 80 ->
      <<<<0, 47>>, <<1, 48>>, <<2, 49>>, <<3, 50>>, <<5, 51>>, <<6, 52>>, <<7, 53>>,
        <<9, 54>>, <<18, 53>>, <<20, 52>>, <<21, 51>>, <<22, 50>>, <<24, 49>>,
        <<25, 48>>, <<26, 47>>, <<27, 46>>, <<28, 45>>, <<29, 44>>, <<31, 43>>,
        <<32, 42>>, <<33, 41>>, <<35, 40>>, <<44, 41>>, <<46, 42>>, <<47, 43>>,
        <<48, 44>>, <<50, 45>>, <<51, 46>>>>
    [] note = 81 ->
      <<<<0, 47>>, <<1, 48>>, <<2, 49>>, <<3, 50>>, <<4, 51>>, <<6, 52>>, <<7, 53>>,
        <<9, 54>>, <<17, 53>>, <<19, 52>>, <<20, 51>>, <<21, 50>>, <<22, 49>>,
        <<23, 48>>, <<24, 47>>, <<26, 46>>, <<27, 45>>, <<28, 44>>, <<29, 43>>,
        <<30, 42>>, <<31, 41>>, <<33, 40>>, <<41, 41>>, <<43, 42>>, <<44, 43>>,
        <<46, 44>>, <<47, 45>>, <<48, 46>>>>
    [] note = 82 ->
      <<<<0, 47>>, <<1, 48>>, <<2, 49>>, <<3, 50>>, <<4, 51>>, <<5, 52>>, <<7, 53>>,
        <<8, 54>>, <<16, 53>>, <<18, 52>>, <<19, 51>>, <<20, 50>>, <<21, 49>>,
        <<22, 48>>, <<23, 47>>, <<25, 46>>, <<26, 45>>, <<27, 44>>, <<28, 43>>,
        <<29, 42>>, <<30, 41>>, <<32, 40>>, <<40, 41>>, <<41, 42>>, <<43, 43>>,
        <<44, 44>>, <<45, 45>>, <<46, 46>>>>
    [] note = 83 ->
      <<<<0, 47>>, <<1, 48>>, <<2, 49>>, <<3, 50>>, <<4, 51>>, <<5, 52>>, <<6, 53>>,
        <<8, 54>>, <<15, 53>>, <<17, 52>>, <<18, 51>>, <<19, 50>>, <<20, 49>>,
        <<21, 48>>, <<22, 47>>, <<23, 46>>, <<24, 45>>, <<25, 44>>, <<26, 43>>,
        <<27, 42>>, <<28, 41>>, <<30, 40>>, <<37, 41>>, <<39, 42>>, <<40, 43>>,
        <<41, 44>>, <<42, 45>>, <<43, 46>>>>
    [] note = 84 ->
      <<<<0, 47>>, <<1, 48>>, <<2, 49>>, <<3, 50>>, <<4, 51>>, <<5, 52>>, <<6, 53>>,
        <<8, 54>>, <<14, 53>>, <<16, 52>>, <<17, 51>>, <<18, 50>>, <<19, 49>>,
        <<20, 48>>, <<21, 47>>, <<22, 46>>, <<23, 45>>, <<24, 44>>, <<25, 43>>,
        <<26, 42>>, <<27, 41>>, <<29, 40>>, <<35, 41>>, <<37, 42>>, <<38, 43>>,
        <<39, 44>>, <<40, 45>>, <<41, 46>>>>
    [] note = 85 ->
      <<<<0, 47>>, <<1, 48>>, <<2, 49>>, <<3, 50>>, <<4, 51>>, <<5, 52>>, <<6, 53>>,
        <<7, 54>>, <<13, 53>>, <<15, 52>>, <<16, 51>>, <<17, 50>>, <<18, 49>>,
        <<19, 48>>, <<20, 46>>, <<21, 45>>, <<22, 44>>, <<23, 43>>, <<24, 42>>,
        <<25, 41>>, <<27, 40>>, <<33, 41>>, <<34, 42>>, <<35, 43>>, <<36, 44>>,
        <<37, 45>>, <<38, 46>>>>
    [] note = 86 ->
      <<<<0, 47>>, <<1, 48>>, <<2, 49>>, <<3, 51>>, <<4, 52>>, <<5, 53>>, <<7, 54>>,
        <<13, 53>>, <<14, 52>>, <<15, 51>>, <<16, 50>>, <<17, 49>>, <<18, 48>>,
        <<19, 46>>, <<20, 45>>, <<21, 44>>, <<22, 43>>, <<23, 42>>, <<24, 41>>,
        <<25, 40>>, <<31, 41>>, <<33, 42>>, <<34, 43>>, <<35, 45>>, <<36, 46>>>>
    [] note = 87 ->
      <<<<0, 47>>, <<1, 48>>, <<2, 50>>, <<3, 51>>, <<4, 52>>, <<5, 53>>, <<6, 54>>,
        <<12, 53>>, <<13, 52>>, <<14, 51>>, <<15, 50>>, <<16, 49>>, <<17, 48>>,
        <<18, 46>>, <<19, 45>>, <<20, 44>>, <<21, 43>>, <<22, 42>>, <<23, 41>>,
        <<24, 40>>, <<30, 41>>, <<31, 42>>, <<32, 43>>, <<33, 44>>, <<34, 46>>>>
    [] note = 88 ->
      <<<<0, 47>>, <<1, 48>>, <<2, 50>>, <<3, 51>>, <<4, 52>>, <<5, 53>>, <<6, 54>>,
        <<11, 53>>, <<13, 52>>, <<14, 50>>, <<15, 49>>, <<16, 48>>, <<17, 46>>,
        <<18, 45>>, <<19, 44>>, <<20, 42>>, <<21, 41>>, <<23, 40>>, <<28, 41>>,
        <<29, 42>>, <<30, 43>>, <<31, 44>>, <<32, 46>>>>
    [] note = 89 ->
      <<<<0, 47>>, <<1, 48>>, <<2, 50>>, <<3, 51>>, <<4, 52>>, <<5, 53>>, <<6, 54>>,
        <<11, 53>>, <<12, 52>>, <<13, 51>>, <<14, 49>>, <<15, 48>>, <<16, 46>>,
        <<17, 45>>, <<18, 43>>, <<19, 42>>, <<20, 41>>, <<21, 40>>, <<26, 41>>,
        <<27, 42>>, <<28, 43>>, <<29, 44>>, <<30, 46>>>>
    [] note = 90 ->
      <<<<0, 47>>, <<1, 49>>, <<2, 50>>, <<3, 52>>, <<4, 53>>, <<5, 54>>, <<10, 53>>,
        <<11, 52>>, <<12, 51>>, <<13, 49>>, <<14, 48>>, <<15, 46>>, <<16, 45>>,
        <<17, 43>>, <<18, 42>>, <<19, 41>>, <<20, 40>>, <<25, 41>>, <<26, 42>>,
        <<27, 44>>, <<28, 45>>>>
    [] note = 91 ->
      <<<<0, 47>>, <<1, 49>>, <<2, 50>>, <<3, 52>>, <<4, 53>>, <<5, 54>>, <<10, 53>>,
        <<11, 52>>, <<12, 50>>, <<13, 49>>, <<14, 47>>, <<15, 45>>, <<16, 44>>,
        <<17, 42>>, <<18, 41>>, <<19, 40>>, <<24, 41>>, <<25, 42>>, <<26, 44>>,
        <<27, 45>>>>
    [] note = 92 ->
      <<<<0, 47>>, <<1, 49>>, <<2, 50>>, <<3, 52>>, <<4, 53>>, <<5, 54>>, <<9, 53>>,
        <<10, 52>>, <<11, 50>>, <<12, 49>>, <<13, 47>>, <<14, 45>>, <<15, 44>>,
        <<16, 42>>, <<17, 41>>, <<18, 40>>, <<22, 41>>, <<23, 42>>, <<24, 44>>,
        <<25, 45>>>>
    [] note = 93 ->
      <<<<0, 47>>, <<1, 49>>, <<2, 51>>, <<3, 52>>, <<4, 53>>, <<5, 54>>, <<8, 53>>,
        <<9, 52>>, <<10, 51>>, <<11, 49>>, <<12, 47>>, <<13, 45>>, <<14, 43>>,
        <<15, 42>>, <<16, 41>>, <<17, 40>>, <<20, 41>>, <<21, 42>>, <<22, 43>>,
        <<23, 45>>>>
    [] note = 94 ->
      <<<<0, 47>>, <<1, 49>>, <<2, 51>>, <<3, 52>>, <<4, 54>>, <<8, 53>>, <<9, 52>>,
        <<10, 50>>, <<11, 48>>, <<12, 46>>, <<13, 44>>, <<14, 42>>, <<15, 41>>,
        <<16, 40>>, <<20, 42>>, <<21, 43>>, <<22, 45>>>>
    [] note = 95 ->
      <<<<0, 47>>, <<1, 49>>, <<2, 51>>, <<3, 53>>, <<4, 54>>, <<8, 53>>, <<9, 51>>,
        <<10, 49>>, <<11, 47>>, <<12, 45>>, <<13, 43>>, <<14, 41>>, <<15, 40>>,
        <<19, 41>>, <<20, 43>>, <<21, 45>>>>
    [] note = 96 ->
      <<<<0, 47>>, <<1, 49>>, <<2, 51>>, <<3, 53>>, <<4, 54>>, <<7, 53>>, <<8, 52>>,
        <<9, 50>>, <<10, 48>>, <<11, 46>>, <<12, 44>>, <<13, 42>>, <<14, 41>>,
        <<15, 40>>, <<18, 41>>, <<19, 43>>, <<20, 45>>>>
    [] note = 97 ->
      <<<<0, 47>>, <<1, 49>>, <<2, 52>>, <<3, 53>>, <<4, 54>>, <<7, 53>>, <<8, 51>>,
        <<9, 48>>, <<10, 46>>, <<11, 43>>, <<12, 41>>, <<13, 40>>, <<16, 41>>,
        <<17, 42>>, <<18, 45>>>>
    [] note = 98 ->
      <<<<0, 47>>, <<1, 50>>, <<2, 52>>, <<3, 53>>, <<4, 54>>, <<6, 53>>, <<7, 52>>,
        <<8, 50>>, <<9, 47>>, <<10, 44>>, <<11, 42>>, <<12, 41>>, <<13, 40>>,
        <<15, 41>>, <<16, 42>>, <<17, 44>>>>
    [] note = 99 ->
      <<<<0, 47>>, <<1, 50>>, <<2, 52>>, <<3, 54>>, <<6, 53>>, <<7, 51>>, <<8, 48>>,
        <<9, 46>>, <<10, 43>>, <<11, 41>>, <<12, 40>>, <<15, 42>>, <<16, 44>>>>
    [] note = 100 ->
      <<<<0, 47>>, <<1, 50>>, <<2, 52>>, <<3, 54>>, <<6, 52>>, <<7, 50>>, <<8, 47>>,
        <<9, 44>>, <<10, 42>>, <<11, 40>>, <<14, 42>>, <<15, 44>>>>
    [] note = 101 ->
      <<<<0, 47>>, <<1, 50>>, <<2, 53>>, <<3, 54>>, <<5, 53>>, <<6, 51>>, <<7, 49>>,
        <<8, 45>>, <<9, 43>>, <<10, 41>>, <<11, 40>>, <<13, 41>>, <<14, 44>>>>
    [] note \in 102..103 ->
      <<<<0, 47>>, <<1, 50>>, <<2, 53>>, <<3, 54>>, <<5, 53>>, <<6, 50>>, <<7, 47>>,
        <<8, 44>>, <<9, 41>>, <<10, 40>>, <<12, 41>>, <<13, 44>>>>
    [] note = 104 ->
      <<<<0, 47>>, <<1, 50>>, <<2, 53>>, <<3, 54>>, <<5, 52>>, <<6, 49>>, <<7, 45>>,
        <<8, 42>>, <<9, 40>>, <<11, 41>>, <<12, 44>>>>
    [] note = 105 ->
      <<<<0, 47>>, <<1, 51>>, <<2, 53>>, <<3, 54>>, <<4, 53>>, <<5, 51>>, <<6, 47>>,
        <<7, 43>>, <<8, 41>>, <<9, 40>>, <<10, 41>>, <<11, 43>>>>
    [] note \in 106..107 ->
      <<<<0, 47>>, <<1, 51>>, <<2, 54>>, <<4, 53>>, <<5, 49>>, <<6, 45>>, <<7, 41>>,
        <<8, 40>>, <<10, 43>>>>
    [] note = 108 ->
      <<<<0, 47>>, <<1, 51>>, <<2, 54>>, <<4, 51>>, <<5, 47>>, <<6, 43>>, <<7, 40>>,
        <<9, 43>>>>
    [] note \in 109..110 ->
      <<<<0, 47>>, <<1, 52>>, <<2, 54>>, <<3, 53>>, <<4, 50>>, <<5, 44>>, <<6, 41>>,
        <<7, 40>>, <<8, 42>>>>
    [] note \in 111..112 ->
      <<<<0, 47>>, <<1, 52>>, <<2, 54>>, <<3, 52>>, <<4, 47>>, <<5, 42>>, <<6, 40>>,
        <<7, 42>>>>
    [] note \in 113..115 ->
      <<<<0, 47>>, <<1, 53>>, <<2, 54>>, <<3, 50>>, <<4, 44>>, <<5, 40>>, <<6, 41>>>>
    [] note \in 116..117 ->
      <<<<0, 47>>, <<1, 53>>, <<3, 47>>, <<4, 41>>>>
    [] note \in 118..120 ->
      <<<<0, 47>>, <<1, 54>>, <<2, 51>>, <<3, 43>>, <<4, 40>>>>
    [] note \in 121..124 ->
      <<<<0, 47>>, <<1, 54>>, <<2, 47>>, <<3, 40>>>>
    [] note \in 125..129 ->
      <<<<0, 47>>, <<1, 53>>, <<2, 41>>>>
    [] note \in 130..255 ->
      <<<<0, 47>>>>

NoteGen_new ==
  [note |-> NOTE_NEW, volume |-> VOLUME_NEW, offset |-> 0,
   buffers |-> [b \in Buffers |-> [i \in 1..BUFFER_SIZE |-> 0]]]

NoteGen_period(self) == PERIOD[self.note + 1]

\* `buffer[i] = sample as u16` for phase n / period
sample_at(note, n) ==
  LET runs == WAVE_RUNS(note)
      j == CHOOSE r \in 1..Len(runs) :
             runs[r][1] <= n /\ (r = Len(runs) \/ n < runs[r + 1][1])
  IN  runs[j][2]

\* the loop of fill_buffer, over len samples from the cursor
fill_span(note, offset, period, len) ==
  [i \in 1..len |-> sample_at(note, (offset + (i - 1)) % period)]

\* `self.offset = (self.offset + BUFFER_SIZE) % period`
next_offset_restart(offset, period) == 0
next_offset_unreduced(offset, period) == offset + BUFFER_SIZE
next_offset(offset, period) == (offset + BUFFER_SIZE) % period

\* NoteGen::fill_buffer
NoteGen_fill_buffer(self, buffer_idx) ==
  LET period == Max(NoteGen_period(self), 1)
  IN  [self EXCEPT
         !.buffers[buffer_idx] = fill_span(self.note, self.offset, period, BUFFER_SIZE),
         !.offset = next_offset(self.offset, period)]

\* NoteGen::set_note
NoteGen_set_note_refill(self, note) ==
  NoteGen_fill_buffer([self EXCEPT !.note = note, !.offset = 0], 0)
NoteGen_set_note(self, note) == [self EXCEPT !.note = note, !.offset = 0]

\* u8::saturating_add, u8::saturating_sub
saturating_add_wrapping(a, b) == (a + b) % (U8_MAX + 1)
saturating_add(a, b) == Min(a + b, U8_MAX)
saturating_sub(a, b) == Max(a - b, 0)

(***************************************************************************)
(* pcm_player.rs, beeper.rs: fill_samples                                  *)
(***************************************************************************)
\* the countertop programmed: PWM_CLOCK_FREQ / (TARGET_SAMPLE_RATE * (REFRESH + 1))
PWM_COUNTERTOP(prog) ==
  IF prog = "beeper"
    THEN PCM_CLOCK_FREQ \div (BEEPER_TARGET_SAMPLE_RATE * (BEEPER_REFRESH + 1))
    ELSE PCM_CLOCK_FREQ \div (PCM_TARGET_SAMPLE_RATE * (PCM_PWM_REFRESH + 1))

\* `(((data as f32 / 255.0) - 0.5) * GAIN + 0.5) * countertop) as u16`, GAIN = 1.0.
\* For the bytes of AudioBytes and the two countertops the f32 evaluation gives
\* this quotient.
pcm_sample(byte, countertop) == (byte * countertop) \div 255

\* fill_samples at a stride of one data sample per output sample (in
\* pcm_player.rs DATA_SAMPLE_RATE / TARGET_SAMPLE_RATE = 1.0, in beeper.rs
\* SAMPLE_STRIDE = 1): the buffer written and the cursor returned
fill_samples(len, data, cursor, countertop) ==
  [buffer |-> [i \in 1..len |->
                 pcm_sample(data[((cursor + (i - 1)) % Len(data)) + 1], countertop)],
   cursor |-> (cursor + len) % Len(data)]

(***************************************************************************)
(* The PWM and GPIOTE peripherals, the NVIC and the CPU.  A frame of the   *)
(* CPU is [ctx, pc, k]: main or a handler, where it stands, and the buffer *)
(* it is writing when pc = "fill".                                         *)
(***************************************************************************)
PwmReset == [playing |-> None, events_seqend |-> [k \in Buffers |-> FALSE]]
GpioteReset == [events_in |-> [b \in Buffers |-> FALSE]]
RtcReset == [events_tick |-> FALSE]
ZeroBuffers == [b \in Buffers |-> [i \in 1..BUF_LEN |-> 0]]

Frame(ctx, pc, k) == [ctx |-> ctx, pc |-> pc, k |-> k]
Op(op, i) == [op |-> op, i |-> i]

\* header.timing: Timing::Metrical(n) or Timing::Timecode(fps, n)
Metrical(n) == [kind |-> "Metrical", fps |-> 0, n |-> n]
Timecode(fps, n) == [kind |-> "Timecode", fps |-> fps, n |-> n]

\* RTC0 after reset: the counter stopped, no interrupt enabled
RtcRegsReset == [started |-> FALSE, prescaler |-> 0, intenset_tick |-> FALSE]

\* the timer set-up of the MIDI player where it is not followed: no timing read,
\* nothing computed, RTC0 as after reset
TimerParked ==
  /\ timing = Metrical(0)
  /\ ticks_per_sec = 0
  /\ rtc_regs = RtcRegsReset

\* TARGET_SAMPLE_RATE and PWM_COUNTERTOP as declared
RateDeclared ==
  /\ TARGET_SAMPLE_RATE = PCM_TARGET_SAMPLE_RATE
  /\ pwm_countertop = PWM_COUNTERTOP_DECLARED

\* the variables of the pipeline while another program runs
PipeParked ==
  /\ program = ""
  /\ AUDIO_DATA = <<>>
  /\ note_gen = NoteGen_new
  /\ CURSOR = 0
  /\ BUFFERS = ZeroBuffers
  /\ pwm = PwmReset
  /\ gpiote = GpioteReset
  /\ rtc = RtcReset
  /\ nvic_pending = {}
  /\ stored = {}
  /\ stack = <<>>
  /\ borrows = {}
  /\ oplog = <<>>
  /\ inv_ops = <<>>
  /\ fill_hist = <<>>
  /\ calls = 0
  /\ TimerParked
  /\ RateDeclared

(***************************************************************************)
(* SpecTracks: the scheduler under arbitrary next_midi_event calls         *)
(***************************************************************************)
self_ == [tracks |-> tracks, next_event |-> next_event,
          ticks |-> ticks, next_track |-> next_track]

InitTracks ==
  /\ MIDI_DATA \in SchedFiles
  /\ LET t == parse_midi(MIDI_DATA)
     IN  /\ tracks = t.tracks
         /\ next_event = t.next_event
         /\ ticks = t.ticks
         /\ next_track = t.next_track
  /\ arg = 0
  /\ result = NoCall
  /\ out = <<>>
  /\ n_finished = 0
  /\ AppInit
  /\ PipeParked

\* One call of next_midi_event.  The ticks passed never decrease, as those of its
\* caller AppState::step; once Finished has been returned, any tick is passed.
CallNextMidiEvent(t) ==
  \E r \in {Tracks_next_midi_event(self_, t)} :
      /\ n_finished < MaxFinished
      /\ arg <= t \/ result.tag = "Finished"
      /\ tracks' = r.self.tracks
      /\ next_event' = r.self.next_event
      /\ ticks' = r.self.ticks
      /\ next_track' = r.self.next_track
      /\ arg' = t
      /\ result' = r.ret
      /\ out' = IF r.ret.tag = "Event" THEN Append(out, Unwrap(r.ret.event)) ELSE out
      /\ n_finished' = IF r.ret.tag = "Finished" THEN n_finished + 1 ELSE n_finished
      /\ UNCHANGED <<MIDI_DATA, appVars, historyVars, pipeVars>>

NextTracks == \E t \in TickArgs : CallNextMidiEvent(t)

SpecTracks == InitTracks /\ [][NextTracks]_vars

(***************************************************************************)
(* Spec: the player after play() has stored the AppState in APP            *)
(***************************************************************************)
app_ == [tracks |-> self_, notes |-> notes, tick |-> tick,
         rtc_stopped |-> rtc_stopped, pwm_running |-> pwm_running,
         BUFFER |-> BUFFER, panic |-> panic,
         dispatched |-> dispatched, played |-> played, last_step |-> last_step]

\* the events of the voice table's files: on two channels, off by a note-on of
\* velocity 0 and by a note-off naming another key, channels that are no slot,
\* and events that are no note
VoiceEvents ==
  { NoteOn(1, 0, MIDDLE_C, 64), NoteOn(0, 1, 62, 64), NoteOn(1, 1, 62, 0),
    NoteOff(1, 0, 61), NoteOn(1, 4, MIDDLE_C, 64), NoteOff(0, 5, MIDDLE_C),
    MetaEv(1), Controller(0, 0) }

\* the files the player is run on: one track of voice events, and the timing
\* files of the scheduler with fewer tracks than the scheduler takes
AppFiles ==
  FilesOf(VoiceEvents, 1, MaxEvents)
    \cup UNION {FilesOf(SchedEvents, n, MaxEvents) : n \in 0..(MAX_TRACKS - 1)}

Init ==
  /\ MIDI_DATA \in AppFiles
  /\ LET t == parse_midi(MIDI_DATA)
     IN  /\ tracks = t.tracks
         /\ next_event = t.next_event
         /\ ticks = t.ticks
         /\ next_track = t.next_track
  /\ arg = 0
  /\ result = NoCall
  /\ out = <<>>
  /\ n_finished = 0
  /\ AppInit
  /\ PipeParked

AppNext(app) ==
  /\ tracks' = app.tracks.tracks
  /\ next_event' = app.tracks.next_event
  /\ ticks' = app.tracks.ticks
  /\ next_track' = app.tracks.next_track
  /\ notes' = app.notes
  /\ tick' = app.tick
  /\ rtc_stopped' = app.rtc_stopped
  /\ pwm_running' = app.pwm_running
  /\ BUFFER' = app.BUFFER
  /\ panic' = app.panic
  /\ dispatched' = app.dispatched
  /\ played' = app.played
  /\ last_step' = app.last_step

\* the RTC0 interrupt: the tick event is cleared and app.step() runs, inside
\* free().  The timer raises it until its STOP task is triggered.  The
\* handler is modelled from the first tick on: AppState::start() leaves the
\* START task untriggered, so whether a tick ever arrives is the hardware's
\* matter and no fairness is placed on this action.
RTC0 ==
  /\ panic = ""
  /\ ~rtc_stopped
  /\ \E app \in {AppState_step(app_)} : AppNext(app)
  /\ rtc_fired' = rtc_fired + 1
  /\ UNCHANGED <<MIDI_DATA, harnessVars, presses, pipeVars>>

\* the GPIOTE interrupt, raised with button A's event, button B's or both,
\* handled inside free()
GPIOTE ==
  /\ panic = ""
  /\ presses < MaxPresses
  /\ \E in0, in1, overflow_checks \in BOOLEAN :
       /\ in0 \/ in1
       /\ \E app \in {GPIOTE_handler(app_, in0, in1, overflow_checks)} : AppNext(app)
  /\ presses' = presses + 1
  /\ UNCHANGED <<MIDI_DATA, harnessVars, rtc_fired, pipeVars>>

Next == RTC0 \/ GPIOTE

Spec == Init /\ [][Next]_vars

\* SpecTick: the tick interrupt keeps firing.  WF_vars(RTC0), with ENABLED
\* <<RTC0>>_vars and <<RTC0>>_vars written as TickReady and TickTaken: RTC0 is
\* enabled while the program runs and the timer has not been stopped, and it is
\* the one step that counts in rtc_fired.
TickReady == panic = "" /\ ~rtc_stopped
TickTaken == rtc_fired' = rtc_fired + 1
FairTick == []<>(~TickReady) \/ []<><<TickTaken>>_vars
SpecTick == Spec /\ FairTick

(***************************************************************************)
(* SpecPipe: the double-buffer pipeline.  The state of the running player  *)
(* is the record pipe_; an operator below takes it to the state after one  *)
(* step of the code.                                                       *)
(***************************************************************************)
pipe_ == [note_gen |-> note_gen, CURSOR |-> CURSOR, BUFFERS |-> BUFFERS,
          pwm |-> pwm, gpiote |-> gpiote, rtc |-> rtc, nvic_pending |-> nvic_pending,
          stored |-> stored, stack |-> stack, borrows |-> borrows,
          oplog |-> oplog, inv_ops |-> inv_ops, fill_hist |-> fill_hist,
          panic |-> panic]

BorrowMutError == "already borrowed: BorrowMutError"
UnwrapNone == "called Option::unwrap() on a None value"

top(s) == s.stack[Len(s.stack)]
set_top(s, f) == [s EXCEPT !.stack[Len(s.stack)] = f]
\* a panic: all of them are raised inside free(), and the frame never leaves it
halt(s, why) ==
  [s EXCEPT !.panic = why,
            !.stack[Len(s.stack)].pc = IF @ = "fill" THEN @ ELSE "free"]

\* history: the log of the first MaxLog pipeline operations
log(s, ops) ==
  LET all == s.oplog \o ops
  IN  [s EXCEPT !.oplog = SubSeq(all, 1, Min(Len(all), MaxLog))]

\* history: the last two fills since the last set_note
Last2(h) == IF Len(h) <= 2 THEN h ELSE SubSeq(h, Len(h) - 1, Len(h))

\* `tasks_seqstart[id]`: the PWM loads sequence id and plays it
play_seq_other(p, id) == [p EXCEPT !.playing = Some(1 - id)]
play_seq(p, id) == [p EXCEPT !.playing = Some(id)]

\* `events_seqend[id].write(|w| w.events_seqend().clear_bit())`
clear_seqend_keep(p, id) == p
clear_seqend(p, id) == [p EXCEPT !.events_seqend[id] = FALSE]

\* the interrupt line of a peripheral: an event flag whose interrupt is enabled
line(s, irq) ==
  IF irq = "PWM0"
    THEN \E k \in Buffers : s.pwm.events_seqend[k]
    ELSE IF irq = "RTC0"
      THEN s.rtc.events_tick
      ELSE \E b \in Buffers : s.gpiote.events_in[b]

\* return from the handler on top: its interrupt is pending again if its line is
\* still asserted
ret(s) ==
  LET irq == top(s).ctx
  IN  [s EXCEPT !.stack = SubSeq(@, 1, Len(@) - 1),
                !.nvic_pending = IF line(s, irq) THEN @ \cup {irq} ELSE @]

\* `free(|cs| ...)`: interrupts are disabled while the frame is inside it
interrupt_free_never(frame) == FALSE
interrupt_free(frame) == frame.pc \in {"fill", "free"}

\* RefCell::borrow_mut and the drop of the RefMut
borrow_mut(s, cell) ==
  IF cell \in s.borrows
    THEN halt(s, BorrowMutError)
    ELSE [s EXCEPT !.borrows = @ \cup {cell}]
release(s, cell) == [s EXCEPT !.borrows = @ \ {cell}]

\* the completion handlers: the sequence started and the buffer refilled when the
\* completion of buffer k is served
next_seq_same(k) == k
next_seq(k) == 1 - k
refilled_other(k) == 1 - k
refilled(k) == k

\* `if events_seqend[k] != 0 { clear; tasks_seqstart[1 - k] ...`: up to the fill
serve_seqend(s, k) ==
  log([s EXCEPT !.pwm = play_seq(clear_seqend(@, k), next_seq(k)),
                !.inv_ops = @ \o <<Op("clear", k), Op("start", next_seq(k))>>],
      <<Op("clear", k), Op("start", next_seq(k))>>)

(***************************************************************************)
(* tone_generator.rs                                                       *)
(***************************************************************************)
\* `self.note_gen.fill_buffer(k)`, with its entries in the history
App_fill_buffer(s, k) ==
  log([s EXCEPT !.note_gen = NoteGen_fill_buffer(@, k),
                !.fill_hist = Last2(Append(@, [idx |-> k, c |-> s.note_gen.offset,
                                               note |-> s.note_gen.note]))],
      <<Op("fill", k)>>)

\* play(), one step of main: from boot, APP is stored and, inside free(), setup
\* and start run up to the first fill of App::start_sequence; then fill_buffer(0),
\* then fill_buffer(1) and `tasks_seqstart[0]`, which ends the critical section
play(s) ==
  IF top(s).pc = "boot"
    THEN LET b == borrow_mut([s EXCEPT !.stored = @ \cup {"APP"}], "APP")
         IN  IF b.panic # ""
               THEN b
               ELSE set_top([b EXCEPT !.note_gen = NoteGen_set_note(@, NOTE_START),
                                      !.fill_hist = <<>>],
                            Frame("main", "fill", 0))
    ELSE LET f == App_fill_buffer(s, top(s).k)
         IN  IF top(s).k = 0
               THEN set_top(f, Frame("main", "fill", 1))
               ELSE set_top(release(log([f EXCEPT !.pwm = play_seq(@, 0)],
                                        <<Op("start", 0)>>), "APP"),
                            Frame("main", "wfi", 0))

\* App::handle_pwm_seqend up to its fill_buffer call
App_handle_pwm_seqend(s) ==
  IF s.pwm.events_seqend[0]
    THEN set_top(serve_seqend(s, 0), Frame("PWM0", "fill", refilled(0)))
    ELSE IF s.pwm.events_seqend[1]
      THEN set_top(serve_seqend(s, 1), Frame("PWM0", "fill", refilled(1)))
      ELSE ret(release(s, "APP"))

\* the PWM0 handler from its entry: free(), borrow_mut, unwrap, handle_pwm_seqend
Tone_PWM0_enter(s) ==
  LET b == borrow_mut(s, "APP")
  IN  IF b.panic # ""
        THEN b
        ELSE IF "APP" \notin b.stored
          THEN halt(b, UnwrapNone)
          ELSE App_handle_pwm_seqend(b)

\* the fill_buffer call of handle_pwm_seqend, and the return
Tone_PWM0_return(s) ==
  LET k == top(s).k
      f == App_fill_buffer(s, k)
  IN  ret(release([f EXCEPT !.inv_ops = Append(@, Op("fill", k))], "APP"))

\* App::handle_button_input
App_handle_button_input(s) ==
  IF s.gpiote.events_in[0]
    THEN [s EXCEPT !.gpiote.events_in[0] = FALSE,
                   !.note_gen = NoteGen_set_note(@, saturating_add(@.note, 1)),
                   !.fill_hist = <<>>]
    ELSE IF s.gpiote.events_in[1]
      THEN [s EXCEPT !.gpiote.events_in[1] = FALSE,
                     !.note_gen = NoteGen_set_note(@, saturating_sub(@.note, 1)),
                     !.fill_hist = <<>>]
      ELSE s

\* the GPIOTE handler of the tone generator
Tone_GPIOTE_handler(s) ==
  LET b == borrow_mut(s, "APP")
  IN  IF b.panic # ""
        THEN b
        ELSE IF "APP" \notin b.stored
          THEN halt(b, UnwrapNone)
          ELSE ret(release(App_handle_button_input(b), "APP"))

(***************************************************************************)
(* pcm_player.rs and beeper.rs                                             *)
(***************************************************************************)
BufferCell(id) == IF id = 0 THEN "BUFFER0" ELSE "BUFFER1"

\* fill_next_buffer: the buffer is borrowed and the frame writes it ...
begin_fill(s, id) ==
  LET b == borrow_mut(s, BufferCell(id))
  IN  IF b.panic # "" THEN b ELSE set_top(b, Frame(top(s).ctx, "fill", id))

\* ... until fill_samples has written every sample and the cursor is stored
end_fill(s) ==
  LET id == top(s).k
      f == fill_samples(BUF_LEN, AUDIO_DATA, s.CURSOR, PWM_COUNTERTOP(program))
  IN  release(log([s EXCEPT !.BUFFERS[id] = f.buffer, !.CURSOR = f.cursor],
                  <<Op("fill", id)>>),
              BufferCell(id))

\* the cells set before main idles
StoredAtStart == IF program = "beeper" THEN {"PWM"} ELSE {"PWM", "GPIOTE"}

\* play_sound_data, one step of main
play_sound_data(s) ==
  LET pc == top(s).pc
  IN  IF pc = "boot"
        THEN set_top(s, Frame("main", "setup", 0))
        ELSE IF pc = "setup"
          THEN begin_fill(s, 0)
          ELSE IF pc = "fill" /\ top(s).k = 0
            THEN begin_fill(end_fill(s), 1)
            ELSE IF pc = "fill"
              THEN set_top(end_fill(s), Frame("main", "filled", 0))
              ELSE IF pc = "filled"
                THEN set_top(log([s EXCEPT !.pwm = play_seq(@, 0)], <<Op("start", 0)>>),
                             Frame("main", "started", 0))
                ELSE set_top([s EXCEPT !.stored = @ \cup StoredAtStart],
                             Frame("main", "wfi", 0))

\* the two `if events_seqend[k] != 0` of PWM0 from the k-th on, up to the next
\* fill or to the return
RECURSIVE PWM0_from(_, _)
PWM0_from(s, k) ==
  IF k \notin Buffers
    THEN ret(s)
    ELSE IF s.pwm.events_seqend[k]
      THEN begin_fill(serve_seqend(s, k), refilled(k))
      ELSE PWM0_from(s, k + 1)

\* the PWM0 handler from its entry: free(), `PWM.borrow(cs).get().unwrap()`
Pcm_PWM0_enter(s) ==
  IF "PWM" \notin s.stored THEN halt(s, UnwrapNone) ELSE PWM0_from(s, 0)

\* the end of a fill_next_buffer call of PWM0, and what follows it
Pcm_PWM0_continue(s) ==
  LET k == top(s).k
  IN  PWM0_from([end_fill(s) EXCEPT !.inv_ops = Append(@, Op("fill", k))], k + 1)

(***************************************************************************)
(* midi_player.rs                                                          *)
(***************************************************************************)
\* play(), one step of main: new, setup and start, which leave the interrupts
\* unmasked; then `free(|cs| APP.borrow(cs).replace(Some(app)))`
midi_play(s) ==
  IF top(s).pc = "boot"
    THEN set_top(s, Frame("main", "setup", 0))
    ELSE LET b == borrow_mut(s, "APP")
         IN  IF b.panic # ""
               THEN b
               ELSE set_top(release([b EXCEPT !.stored = @ \cup {"APP"}], "APP"),
                            Frame("main", "wfi", 0))

\* RTC0 and GPIOTE from their entry: free(), borrow_mut, unwrap; RTC0 clears
\* the tick event
midi_enter(s) ==
  LET b == borrow_mut(s, "APP")
  IN  IF b.panic # ""
        THEN b
        ELSE IF "APP" \notin b.stored
          THEN halt(b, UnwrapNone)
          ELSE set_top([b EXCEPT !.rtc = IF top(s).ctx = "RTC0" THEN RtcReset ELSE @],
                       Frame(top(s).ctx, "free", 0))

\* the end of the critical section of RTC0 and GPIOTE; GPIOTE has cleared the
\* button events it has read
midi_return(s) ==
  ret(release([s EXCEPT !.gpiote = IF top(s).ctx = "GPIOTE" THEN GpioteReset ELSE @],
              "APP"))

\* the RTC counts one tick: TICK
rtc_tick(s) ==
  [s EXCEPT !.rtc.events_tick = TRUE, !.nvic_pending = @ \cup {"RTC0"}]

(***************************************************************************)
(* The hardware                                                            *)
(***************************************************************************)
\* the PWM reaches the end of the sequence it plays: SEQEND[k]
seqend(s) ==
  LET k == Unwrap(s.pwm.playing)
  IN  [s EXCEPT !.pwm = [playing |-> None,
                         events_seqend |-> [@.events_seqend EXCEPT ![k] = TRUE]],
                !.nvic_pending = @ \cup {"PWM0"}]

\* a falling edge on button b: IN[b]
button_edge(s, b) ==
  [s EXCEPT !.gpiote.events_in[b] = TRUE, !.nvic_pending = @ \cup {"GPIOTE"}]

\* the CPU takes a pending interrupt
take(s, irq) ==
  [s EXCEPT !.stack = Append(@, Frame(irq, "entry", 0)),
            !.nvic_pending = @ \ {irq},
            !.inv_ops = IF irq = "PWM0" THEN <<>> ELSE @]

(***************************************************************************)
(* SpecPipe                                                                *)
(***************************************************************************)
midiRest == <<MIDI_DATA, schedVars, harnessVars, notes, tick, rtc_stopped,
              pwm_running, BUFFER, dispatched, played, last_step, rtc_fired>>

\* the files of the player in the runs with preemption: one track of at most
\* one voice event
PipeMidiFiles == FilesOf(VoiceEvents, 1, 1)

\* the MIDI player before main runs, on one of the given files
MidiInit(files) ==
  /\ MIDI_DATA \in files
  /\ LET t == parse_midi(MIDI_DATA)
     IN  /\ tracks = t.tracks
         /\ next_event = t.next_event
         /\ ticks = t.ticks
         /\ next_track = t.next_track
  /\ arg = 0
  /\ result = NoCall
  /\ out = <<>>
  /\ n_finished = 0
  /\ AppInit

\* the variables of the MIDI player while another program runs
MidiParked ==
  /\ MIDI_DATA = <<>>
  /\ LET t == parse_midi(<<>>)
     IN  /\ tracks = t.tracks
         /\ next_event = t.next_event
         /\ ticks = t.ticks
         /\ next_track = t.next_track
  /\ arg = 0
  /\ result = NoCall
  /\ out = <<>>
  /\ n_finished = 0
  /\ AppInit

PipePrograms == {"tone_generator", "pcm_player", "beeper", "midi_player"}
AudioBytes == {0, 255}
AudioFiles == UNION {[1..n -> AudioBytes] : n \in 1..MaxAudio}

\* before main runs: App::new() for the tone generator, the statics as declared
InitPipe ==
  /\ program \in PipePrograms
  /\ MidiInit(IF program = "midi_player" THEN PipeMidiFiles ELSE {<<>>})
  /\ AUDIO_DATA \in (IF program \in {"pcm_player", "beeper"} THEN AudioFiles ELSE {<<>>})
  /\ note_gen = NoteGen_new
  /\ CURSOR = 0
  /\ BUFFERS = ZeroBuffers
  /\ pwm = PwmReset
  /\ gpiote = GpioteReset
  /\ rtc = RtcReset
  /\ nvic_pending = {}
  /\ stored = {}
  /\ stack = <<Frame("main", "boot", 0)>>
  /\ borrows = {}
  /\ oplog = <<>>
  /\ inv_ops = <<>>
  /\ fill_hist = <<>>
  /\ calls = 0
  /\ TimerParked
  /\ RateDeclared

PipeSet(s) ==
  /\ note_gen' = s.note_gen
  /\ CURSOR' = s.CURSOR
  /\ BUFFERS' = s.BUFFERS
  /\ pwm' = s.pwm
  /\ gpiote' = s.gpiote
  /\ rtc' = s.rtc
  /\ nvic_pending' = s.nvic_pending
  /\ stored' = s.stored
  /\ stack' = s.stack
  /\ borrows' = s.borrows
  /\ oplog' = s.oplog
  /\ inv_ops' = s.inv_ops
  /\ fill_hist' = s.fill_hist
  /\ UNCHANGED <<program, AUDIO_DATA, calls, rateVars, timerVars>>

PipeNext(s) ==
  /\ PipeSet(s)
  /\ panic' = s.panic
  /\ UNCHANGED midiRest

Running(ctx, pcs) == panic = "" /\ top(pipe_).ctx = ctx /\ top(pipe_).pc \in pcs

\* main of the tone generator
Tone_play ==
  /\ program = "tone_generator"
  /\ Running("main", {"boot", "fill"})
  /\ \E s \in {play(pipe_)} : PipeNext(s)
  /\ UNCHANGED presses

Tone_PWM0 ==
  /\ program = "tone_generator"
  /\ Running("PWM0", {"entry"})
  /\ \E s \in {Tone_PWM0_enter(pipe_)} : PipeNext(s)
  /\ UNCHANGED presses

Tone_PWM0_refill ==
  /\ program = "tone_generator"
  /\ Running("PWM0", {"fill"})
  /\ \E s \in {Tone_PWM0_return(pipe_)} : PipeNext(s)
  /\ UNCHANGED presses

Tone_GPIOTE ==
  /\ program = "tone_generator"
  /\ Running("GPIOTE", {"entry"})
  /\ \E s \in {Tone_GPIOTE_handler(pipe_)} : PipeNext(s)
  /\ UNCHANGED presses

\* main of the PCM player and of the beeper
Pcm_play_sound_data ==
  /\ program \in {"pcm_player", "beeper"}
  /\ Running("main", {"boot", "setup", "fill", "filled", "started"})
  /\ \E s \in {play_sound_data(pipe_)} : PipeNext(s)
  /\ UNCHANGED presses

Pcm_PWM0 ==
  /\ program \in {"pcm_player", "beeper"}
  /\ Running("PWM0", {"entry"})
  /\ \E s \in {Pcm_PWM0_enter(pipe_)} : PipeNext(s)
  /\ UNCHANGED presses

Pcm_PWM0_refill ==
  /\ program \in {"pcm_player", "beeper"}
  /\ Running("PWM0", {"fill"})
  /\ \E s \in {Pcm_PWM0_continue(pipe_)} : PipeNext(s)
  /\ UNCHANGED presses

\* main of the MIDI player
Midi_play ==
  /\ program = "midi_player"
  /\ Running("main", {"boot", "setup"})
  /\ PipeNext(midi_play(pipe_))
  /\ UNCHANGED presses

\* RTC0 and GPIOTE of the MIDI player enter their critical section
Midi_enter ==
  /\ program = "midi_player"
  /\ Running("RTC0", {"entry"}) \/ Running("GPIOTE", {"entry"})
  /\ PipeNext(midi_enter(pipe_))
  /\ UNCHANGED presses

\* RTC0 of the MIDI player: app.step(), to the return
Midi_RTC0 ==
  /\ program = "midi_player"
  /\ Running("RTC0", {"free"})
  /\ \E app \in {AppState_step(app_)} : AppNext(app)
  /\ PipeSet(midi_return(pipe_))
  /\ rtc_fired' = rtc_fired + 1
  /\ UNCHANGED <<MIDI_DATA, harnessVars, presses>>

\* GPIOTE of the MIDI player: the two button branches, to the return
Midi_GPIOTE ==
  /\ program = "midi_player"
  /\ Running("GPIOTE", {"free"})
  /\ \E overflow_checks \in BOOLEAN :
       \E app \in {GPIOTE_handler(app_, gpiote.events_in[0], gpiote.events_in[1],
                                  overflow_checks)} : AppNext(app)
  /\ PipeSet(midi_return(pipe_))
  /\ UNCHANGED <<MIDI_DATA, harnessVars, presses, rtc_fired>>

\* An interrupt is taken once main has unmasked it, while interrupts are not
\* disabled and its handler is not active.  The priorities the programs write
\* (10 and 1, 10 and 9, 1 and 1) are not modelled: either handler may preempt
\* the other outside a critical section.
Interrupt(irq) ==
  /\ panic = ""
  /\ stack[1].pc # "boot"
  /\ irq \in nvic_pending
  /\ ~interrupt_free(top(pipe_))
  /\ \A i \in 1..Len(stack) : stack[i].ctx # irq
  /\ PipeNext(take(pipe_, irq))
  /\ UNCHANGED presses

\* the hardware completes the sequence it plays
SEQEND ==
  /\ IsSome(pwm.playing)
  /\ PipeNext(seqend(pipe_))
  /\ UNCHANGED presses

\* the RTC of the MIDI player ticks, until its STOP task is triggered
RTC_tick ==
  /\ program = "midi_player"
  /\ ~rtc_stopped
  /\ stack[1].pc # "boot"
  /\ PipeNext(rtc_tick(pipe_))
  /\ UNCHANGED presses

\* a button of the tone generator or of the MIDI player is pressed
ButtonEdge(b) ==
  /\ program \in {"tone_generator", "midi_player"}
  /\ panic = ""
  /\ stack[1].pc # "boot"
  /\ presses < MaxPresses
  /\ PipeNext(button_edge(pipe_, b))
  /\ presses' = presses + 1

NextPipe ==
  \/ Tone_play
  \/ Tone_PWM0
  \/ Tone_PWM0_refill
  \/ Tone_GPIOTE
  \/ Pcm_play_sound_data
  \/ Pcm_PWM0
  \/ Pcm_PWM0_refill
  \/ Midi_play
  \/ Midi_enter
  \/ Midi_RTC0
  \/ Midi_GPIOTE
  \/ \E irq \in {"PWM0", "GPIOTE", "RTC0"} : Interrupt(irq)
  \/ SEQEND
  \/ RTC_tick
  \/ \E b \in Buffers : ButtonEdge(b)

SpecPipe == InitPipe /\ [][NextPipe]_vars

\* SpecPipeFair: the CPU runs.  While it can take a pending interrupt or
\* execute the next step of a handler it has entered, it does one of the two.
\* Nothing is assumed of the hardware events or of main.
CpuStep ==
  \/ \E irq \in {"PWM0", "GPIOTE", "RTC0"} : Interrupt(irq)
  \/ Tone_PWM0
  \/ Tone_PWM0_refill
  \/ Tone_GPIOTE
  \/ Pcm_PWM0
  \/ Pcm_PWM0_refill
  \/ Midi_enter
  \/ Midi_RTC0
  \/ Midi_GPIOTE

\* ENABLED <<CpuStep>>_vars as a predicate of the state: a handler is on the
\* stack, or main runs outside a critical section with an interrupt pending
CpuReady ==
  /\ panic = ""
  /\ \/ top(pipe_).ctx # "main"
     \/ /\ stack[1].pc # "boot"
        /\ ~interrupt_free(top(pipe_))
        /\ nvic_pending # {}

\* <<CpuStep>>_vars on the steps of NextPipe: an interrupt entry pushes a frame,
\* a handler step moves or pops the top frame
CpuMoved ==
  /\ stack' # stack
  /\ top(pipe_).ctx # "main" \/ Len(stack') > Len(stack)

\* WF_vars(CpuStep), with ENABLED <<CpuStep>>_vars and <<CpuStep>>_vars written
\* as CpuReady and CpuMoved
FairPipe == []<>(~CpuReady) \/ []<><<CpuMoved>>_vars

SpecPipeFair == SpecPipe /\ FairPipe

(***************************************************************************)
(* SpecNoteGen: the NoteGen of the tone generator under the calls the App  *)
(* makes on it, from the notes at both ends of the u8 range.               *)
(***************************************************************************)
\* the NoteGen when App::start returns: set_note(69), fill_buffer(0), fill_buffer(1)
NoteGen_started ==
  NoteGen_fill_buffer(
    NoteGen_fill_buffer(NoteGen_set_note(NoteGen_new, NOTE_START), 0), 1)

\* the NoteGen after handle_button_input has served button b
button(self, b) ==
  App_handle_button_input(
    [note_gen |-> self, fill_hist |-> <<>>,
     gpiote |-> [GpioteReset EXCEPT !.events_in[b] = TRUE]]).note_gen

\* Every press of button B calls set_note(note - 1) and every press of button A
\* set_note(note + 1), and set_note writes the note and the cursor only: after
\* 69 presses of B in a row the started NoteGen is at note 0, after 186 presses
\* of A in a row at note 255, with the buffers App::start has filled.
NoteGen_at(note) == NoteGen_set_note(NoteGen_started, note)

InitNoteGen ==
  /\ MidiParked
  /\ program = "tone_generator"
  /\ AUDIO_DATA = <<>>
  /\ note_gen \in {NoteGen_started, NoteGen_at(0), NoteGen_at(U8_MAX)}
  /\ CURSOR = 0
  /\ BUFFERS = ZeroBuffers
  /\ pwm = PwmReset
  /\ gpiote = GpioteReset
  /\ rtc = RtcReset
  /\ nvic_pending = {}
  /\ stored = {"APP"}
  /\ stack = <<Frame("main", "wfi", 0)>>
  /\ borrows = {}
  /\ oplog = <<>>
  /\ inv_ops = <<>>
  /\ fill_hist = <<>>
  /\ calls = 0
  /\ TimerParked
  /\ RateDeclared

noteGenRest == <<midiRest, panic, program, AUDIO_DATA, CURSOR, BUFFERS, pwm, gpiote,
                 rtc, nvic_pending, stored, stack, borrows, oplog, inv_ops, fill_hist,
                 rateVars, timerVars>>

\* a completion is served: the handler refills the buffers in turn
Call_fill_buffer ==
  /\ calls < MaxCalls
  /\ note_gen' = NoteGen_fill_buffer(note_gen, calls % 2)
  /\ calls' = calls + 1
  /\ UNCHANGED <<noteGenRest, presses>>

\* a button interrupt is served
Call_handle_button_input(b) ==
  /\ presses < MaxPresses
  /\ note_gen' = button(note_gen, b)
  /\ presses' = presses + 1
  /\ UNCHANGED <<noteGenRest, calls>>

NextNoteGen ==
  \/ Call_fill_buffer
  \/ \E b \in Buffers : Call_handle_button_input(b)

SpecNoteGen == InitNoteGen /\ [][NextNoteGen]_vars

(***************************************************************************)
(* SpecButtons: the button handlers at the ends of the key range.  The     *)
(* MIDI player runs on files that sound one key on channel 0 (program is   *)
(* "" as in Spec), and the NoteGen of the tone generator runs as in        *)
(* SpecNoteGen.                                                            *)
(***************************************************************************)
\* the lowest key, middle C and the highest key of a MIDI file
ButtonKeys == {0, MIDDLE_C, 127}

\* one track: a note-on on channel 0 at tick 1, then a meta event 1 or 2 ticks later
ButtonFiles ==
  {<< <<NoteOn(1, 0, k, 64), MetaEv(d)>> >> : k \in ButtonKeys, d \in {1, 2}}

InitButtons ==
  \/ /\ MidiInit(ButtonFiles)
     /\ PipeParked
  \/ InitNoteGen

NextButtons ==
  \/ program = "" /\ Next
  \/ program = "tone_generator" /\ NextNoteGen

SpecButtons == InitButtons /\ [][NextButtons]_vars

(***************************************************************************)
(* SpecSamples: the samples the three players hold in their buffers.  The  *)
(* tone generator runs as in SpecNoteGen.  The PCM player and the beeper   *)
(* run from the state play_sound_data leaves: the PWM configured, both     *)
(* buffers filled, sequence 0 started.  Their handlers do all their work   *)
(* inside free(), so each is one step.                                     *)
(***************************************************************************)
\* tone_generator.rs: PWM_COUNTER_TOP
PWM_COUNTER_TOP == TONE_PWM_CLOCK_FREQ \div SAMPLE_RATE

\* the u16 `countertop` of configure_pwm
configure_pwm(rate, refresh, old) == (PCM_CLOCK_FREQ \div (rate * (refresh + 1))) % 65536

\* `(stride * i as f32) as usize` with stride = DATA_SAMPLE_RATE as f32 /
\* target_sample_rate as f32: for the rates within five button presses of the
\* initial one and i up to BUF_LEN the f32 evaluation gives this quotient
stride_pos(rate, i) == (i * DATA_SAMPLE_RATE) \div rate

\* fill_samples of pcm_player.rs at the rate and countertop the statics hold
fill_samples_at(len, data, cursor, ct, rate) ==
  [buffer |-> [i \in 1..len |->
                 pcm_sample(data[((cursor + stride_pos(rate, i - 1)) % Len(data)) + 1], ct)],
   cursor |-> (cursor + stride_pos(rate, len)) % Len(data)]

\* ButtonFunction::TargetSampleRate: up() and down(), fetch_add and fetch_sub on
\* an AtomicU32.  The presses of the model keep the rate far from 0 and from
\* 2^32, so neither wraps.
rate_up(rate) == rate + RATE_STEP
rate_down(rate) == rate - RATE_STEP

\* the PCM player or the beeper when play_sound_data has started sequence 0
InitSampled ==
  /\ MidiParked
  /\ program \in {"pcm_player", "beeper"}
  /\ AUDIO_DATA \in AudioFiles
  /\ TARGET_SAMPLE_RATE = (IF program = "beeper" THEN BEEPER_TARGET_SAMPLE_RATE
                                                 ELSE PCM_TARGET_SAMPLE_RATE)
  /\ pwm_countertop = PWM_COUNTERTOP(program)
  /\ LET f0 == fill_samples(BUF_LEN, AUDIO_DATA, 0, PWM_COUNTERTOP(program))
         f1 == fill_samples(BUF_LEN, AUDIO_DATA, f0.cursor, PWM_COUNTERTOP(program))
     IN  /\ BUFFERS = [b \in Buffers |-> IF b = 0 THEN f0.buffer ELSE f1.buffer]
         /\ CURSOR = f1.cursor
  /\ note_gen = NoteGen_new
  /\ pwm = [PwmReset EXCEPT !.playing = Some(0)]
  /\ gpiote = GpioteReset
  /\ rtc = RtcReset
  /\ nvic_pending = {}
  /\ stored = StoredAtStart
  /\ stack = <<Frame("main", "wfi", 0)>>
  /\ borrows = {}
  /\ oplog = <<>>
  /\ inv_ops = <<>>
  /\ fill_hist = <<>>
  /\ calls = 0
  /\ TimerParked

InitSamples == InitNoteGen \/ InitSampled

sampledRest == <<midiRest, panic, program, AUDIO_DATA, note_gen, pwm, gpiote, rtc,
                 nvic_pending, stored, stack, borrows, oplog, inv_ops, fill_hist,
                 timerVars>>

\* a completion is served: fill_next_buffer on the buffers in turn
Call_fill_next_buffer ==
  /\ program \in {"pcm_player", "beeper"}
  /\ calls < MaxCalls
  /\ LET f == IF program = "beeper"
                THEN fill_samples(BUF_LEN, AUDIO_DATA, CURSOR, PWM_COUNTERTOP(program))
                ELSE fill_samples_at(BUF_LEN, AUDIO_DATA, CURSOR, pwm_countertop,
                                     TARGET_SAMPLE_RATE)
     IN  /\ BUFFERS' = [BUFFERS EXCEPT ![calls % 2] = f.buffer]
         /\ CURSOR' = f.cursor
  /\ calls' = calls + 1
  /\ UNCHANGED <<sampledRest, rateVars, presses>>

\* the GPIOTE handler of the PCM player, raised with button A's event, button
\* B's or both: up() or down(), each followed by configure_pwm
Pcm_GPIOTE(in0, in1) ==
  /\ program = "pcm_player"
  /\ presses < MaxPresses
  /\ in0 \/ in1
  /\ LET up == IF in0 THEN rate_up(TARGET_SAMPLE_RATE) ELSE TARGET_SAMPLE_RATE
         ct0 == IF in0 THEN configure_pwm(up, PCM_PWM_REFRESH, pwm_countertop)
                       ELSE pwm_countertop
         down == IF in1 THEN rate_down(up) ELSE up
         ct1 == IF in1 THEN configure_pwm(down, PCM_PWM_REFRESH, ct0) ELSE ct0
     IN  /\ TARGET_SAMPLE_RATE' = down
         /\ pwm_countertop' = ct1
  /\ presses' = presses + 1
  /\ UNCHANGED <<sampledRest, CURSOR, BUFFERS, calls>>

NextSamples ==
  \/ program = "tone_generator" /\ NextNoteGen
  \/ Call_fill_next_buffer
  \/ \E in0, in1 \in BOOLEAN : Pcm_GPIOTE(in0, in1)

SpecSamples == InitSamples /\ [][NextSamples]_vars

(***************************************************************************)
(* SpecOctave: the periods of keys an octave apart.  The MIDI player runs  *)
(* on files that sound key k on channel 0 and key k + 12 on channel 1      *)
(* (program is "" as in Spec); the NoteGen of the tone generator is asked  *)
(* for its period at note k and, after set_note, at note k + 12.           *)
(***************************************************************************)
\* the keys of a MIDI file (u7) and the notes of the NoteGen (u8) that have
\* their octave in range
OctaveKeys == 0..(127 - 12)
OctaveNotes == 0..(U8_MAX - 12)

\* one track: both note-ons at tick 1, then a meta event one tick later
OctaveFiles ==
  {<< <<NoteOn(1, 0, k, 64), NoteOn(0, 1, k + 12, 64), MetaEv(1)>> >> : k \in OctaveKeys}

InitOctave ==
  \/ /\ MidiInit(OctaveFiles)
     /\ PipeParked
  \/ /\ MidiParked
     /\ program = "tone_generator"
     /\ AUDIO_DATA = <<>>
     /\ note_gen \in {NoteGen_at(k) : k \in OctaveNotes}
     /\ CURSOR = 0
     /\ BUFFERS = ZeroBuffers
     /\ pwm = PwmReset
     /\ gpiote = GpioteReset
     /\ rtc = RtcReset
     /\ nvic_pending = {}
     /\ stored = {"APP"}
     /\ stack = <<Frame("main", "wfi", 0)>>
     /\ borrows = {}
     /\ oplog = <<>>
     /\ inv_ops = <<>>
     /\ fill_hist = <<>>
     /\ calls = 0
     /\ TimerParked
     /\ RateDeclared

octaveRest == <<MIDI_DATA, schedVars, arg, result, n_finished, appVars, historyVars,
                program, AUDIO_DATA, CURSOR, BUFFERS, pwm, gpiote, rtc, nvic_pending,
                stored, stack, borrows, oplog, inv_ops, fill_hist, rateVars, timerVars>>

\* self.period() is called, as set_note does for its log line
Call_period ==
  /\ program = "tone_generator"
  /\ calls < 2
  /\ Len(out) = calls
  /\ out' = Append(out, [note |-> note_gen.note, period |-> NoteGen_period(note_gen)])
  /\ UNCHANGED <<octaveRest, note_gen, calls>>

\* set_note to the note an octave up
Call_set_note_octave ==
  /\ program = "tone_generator"
  /\ calls = 0
  /\ Len(out) = 1
  /\ note_gen' = NoteGen_set_note(note_gen, note_gen.note + 12)
  /\ calls' = calls + 1
  /\ UNCHANGED <<octaveRest, out>>

NextOctave ==
  \/ program = "" /\ Next
  \/ Call_period
  \/ Call_set_note_octave

SpecOctave == InitOctave /\ [][NextOctave]_vars

(***************************************************************************)
(* SpecTimer: play() of the MIDI player up to its idle loop, step by step, *)
(* and what it leaves in RTC0.  The RTC raises TICK only while its counter *)
(* runs, that is after its START task has been triggered.  Spec and        *)
(* SpecPipe take the RTC0 interrupt as raised from outside and follow the  *)
(* handler; here the timer itself is followed.                             *)
(***************************************************************************)
\* the frequency of the RTC's clock, and the rate update_ticks_per_sec sets
RTC_CLOCK_FREQ == 32768
TICKS_PER_SEC_SET == 72

\* parse_midi's tick_per_sec: `n as f32`, or `fps.as_f32() * n as f32`.  The
\* timecodes of the model have whole frame rates, so the product is exact.
header_ticks_per_sec(t) == IF t.kind = "Metrical" THEN t.n ELSE t.fps * t.n

\* AppState::update_ticks_per_sec: `self.ticks_per_sec = 72.0; return;`
update_ticks_per_sec(tps) == TICKS_PER_SEC_SET

\* `((32768.0 / ticks_per_sec) as u32 - 1) as u16`, for rates from 1 to 32768,
\* where the f32 quotient truncates to the integer quotient and is at least 1
timer_prescaler(tps) == ((RTC_CLOCK_FREQ \div tps) - 1) % 65536

\* setup_timer
setup_timer(regs, tps) ==
  [regs EXCEPT !.prescaler = timer_prescaler(tps), !.intenset_tick = TRUE]

\* AppState::start: its body is commented out, `tasks_start` is not triggered
AppState_start(regs) == regs

\* the timings of the headers the player is run on
TimerHeaders ==
  {Metrical(n) : n \in {24, 48, 72, 96, 120, 192, 240, 384, 480, 960, 1024, 15360}}
    \cup {Timecode(fps, n) : fps \in {24, 25, 30}, n \in {4, 8, 10, 80, 100}}

InitTimer ==
  /\ MidiInit(PipeMidiFiles)
  /\ program = "midi_player"
  /\ AUDIO_DATA = <<>>
  /\ note_gen = NoteGen_new
  /\ CURSOR = 0
  /\ BUFFERS = ZeroBuffers
  /\ pwm = PwmReset
  /\ gpiote = GpioteReset
  /\ rtc = RtcReset
  /\ nvic_pending = {}
  /\ stored = {}
  /\ stack = <<Frame("main", "boot", 0)>>
  /\ borrows = {}
  /\ oplog = <<>>
  /\ inv_ops = <<>>
  /\ fill_hist = <<>>
  /\ calls = 0
  /\ RateDeclared
  /\ timing \in TimerHeaders
  /\ ticks_per_sec = 0
  /\ rtc_regs = RtcRegsReset

timerRest == <<midiRest, panic, presses, program, AUDIO_DATA, note_gen, CURSOR, BUFFERS,
               pwm, gpiote, rtc, nvic_pending, borrows, oplog, inv_ops, fill_hist,
               calls, rateVars, timing>>

\* `let mut app = AppState::new();`
Timer_new ==
  /\ program = "midi_player"
  /\ stack = <<Frame("main", "boot", 0)>>
  /\ ticks_per_sec' = header_ticks_per_sec(timing)
  /\ stack' = <<Frame("main", "new", 0)>>
  /\ UNCHANGED <<timerRest, stored, rtc_regs>>

\* `app.setup();`: update_ticks_per_sec, then setup_timer with what it left
Timer_setup ==
  /\ program = "midi_player"
  /\ stack = <<Frame("main", "new", 0)>>
  /\ ticks_per_sec' = update_ticks_per_sec(ticks_per_sec)
  /\ rtc_regs' = setup_timer(rtc_regs, ticks_per_sec')
  /\ stack' = <<Frame("main", "setup", 0)>>
  /\ UNCHANGED <<timerRest, stored>>

\* `AppState::start(&mut app);`
Timer_start ==
  /\ program = "midi_player"
  /\ stack = <<Frame("main", "setup", 0)>>
  /\ rtc_regs' = AppState_start(rtc_regs)
  /\ stack' = <<Frame("main", "start", 0)>>
  /\ UNCHANGED <<timerRest, stored, ticks_per_sec>>

\* `APP.borrow(cs).replace(Some(app))`, then the idle loop
Timer_store ==
  /\ program = "midi_player"
  /\ stack = <<Frame("main", "start", 0)>>
  /\ stored' = stored \cup {"APP"}
  /\ stack' = <<Frame("main", "wfi", 0)>>
  /\ UNCHANGED <<timerRest, ticks_per_sec, rtc_regs>>

NextTimer ==
  \/ Timer_new
  \/ Timer_setup
  \/ Timer_start
  \/ Timer_store

SpecTimer == InitTimer /\ [][NextTimer]_vars

(***************************************************************************)
(* Vocabulary of the scheduler's claims, defined from the file and the     *)
(* pending events, not from the scheduler's cache                          *)
(***************************************************************************)
RECURSIVE SumDeltas(_, _)
SumDeltas(track, k) == IF k = 0 THEN 0 ELSE SumDeltas(track, k - 1) + track[k].delta

\* the absolute tick of an event: the deltas of its track up to and including it
AbsTick(e) == SumDeltas(MIDI_DATA[e.at[1] + 1], e.at[2])

TrackIdx == 0..(MAX_TRACKS - 1)
PendingTracks == {j \in TrackIdx : IsSome(next_event[j])}
NoPending == PendingTracks = {}
PendingTick(j) == ticks[j] + Unwrap(next_event[j]).delta
MinPendingTick ==
  CHOOSE t \in {PendingTick(j) : j \in PendingTracks} :
    \A j \in PendingTracks : t <= PendingTick(j)
IteratorsExhausted == \A i \in 1..Len(tracks) : tracks[i] = <<>>

\* C1: over calls of next_midi_event with non-decreasing ticks, the events returned
\* come in non-decreasing order of absolute tick (the sum of the deltas of the
\* event's track up to and including the event).
C1_ReturnedInTickOrder ==
  \A j \in 1..(Len(out) - 1) : AbsTick(out[j]) <= AbsTick(out[j + 1])

\* two tracks interleaved: the higher track's event was due first
C1_Witness ==
  /\ Len(out) >= 2
  /\ out[1].at[1] > out[2].at[1]
  /\ AbsTick(out[1]) < AbsTick(out[2])

\* C2: when several tracks have their pending events at the same absolute tick,
\* the cached next-due track is the lowest index among the tracks at the minimum.
C2_LowestIndexFirst ==
  IsSome(next_track) =>
    \A j \in PendingTracks :
      PendingTick(j) = Unwrap(next_track)[2] => Unwrap(next_track)[1] <= j

\* C3: once next_midi_event has returned Finished, every later call, whatever its
\* tick, returns Finished and changes no field of the scheduler.
C3_FinishedAbsorbing ==
  [][result.tag = "Finished" => (result'.tag = "Finished" /\ UNCHANGED schedVars)]_vars

\* Finished was returned twice, the second time for an earlier tick
C3_Witness == n_finished >= 2 /\ out # <<>> /\ arg < AbsTick(out[Len(out)])

\* C4: next_midi_event returns Finished exactly when every track of the scheduler
\* is exhausted: Finished is returned only with no pending event left and every
\* iterator at its end, Pending only with an event pending, and a call made
\* with no pending event returns Finished.
C4_FinishedIffExhausted ==
  [][/\ result'.tag = "Finished" => (NoPending' /\ IteratorsExhausted')
     /\ result'.tag = "Pending" => ~NoPending'
     /\ NoPending => result'.tag = "Finished"]_vars

\* Finished after events of two tracks were returned
C4_Witness ==
  /\ result.tag = "Finished"
  /\ Len(out) >= 2
  /\ out[1].at[1] # out[2].at[1]

\* C5: a call whose tick is below the minimum pending absolute tick returns
\* Pending and leaves iterators, pending events, tick accumulators and the cached
\* next-due pair as they were.
C5_PendingChangesNothing ==
  [][(~NoPending /\ MinPendingTick > arg') =>
       (result'.tag = "Pending" /\ UNCHANGED schedVars)]_vars

\* Pending was returned after an event, with an event of another track waiting
C5_Witness ==
  /\ result.tag = "Pending"
  /\ out # <<>>
  /\ MinPendingTick > arg
  /\ Cardinality(PendingTracks) >= 2

\* C6: after parse_midi and after every call, next_track is None iff no track has
\* a pending event, and otherwise names a track whose pending event is at the
\* minimum absolute tick over all pending events, with that tick.
C6_CacheConsistent ==
  IF NoPending
    THEN next_track = None
    ELSE /\ IsSome(next_track)
         /\ Unwrap(next_track)[1] \in PendingTracks
         /\ Unwrap(next_track)[2] = MinPendingTick
         /\ PendingTick(Unwrap(next_track)[1]) = MinPendingTick

\* the cache after an event was consumed, with events of two tracks pending at
\* different ticks
C6_Witness ==
  /\ out # <<>>
  /\ \E i, j \in PendingTracks : PendingTick(i) < PendingTick(j)
  /\ IsSome(next_track)

\* C7: scenario A.  Drained at ticks 0, 5 and 10, the scheduler returns exactly
\* ch0 NoteOn, ch1 NoteOn, ch0 NoteOff in that order: Pending follows the first at
\* every tick below 5 and the second at every tick below 10, Finished the third.
A_On0 == Located(ScenarioA)[1][1]
A_On1 == Located(ScenarioA)[2][1]
A_Off0 == Located(ScenarioA)[1][2]
C7_ScenarioA ==
  MIDI_DATA = ScenarioA =>
    /\ out \in {<<>>, <<A_On0>>, <<A_On0, A_On1>>, <<A_On0, A_On1, A_Off0>>}
    /\ A_On0.channel = 0 /\ A_On0.message = "NoteOn"
    /\ A_On1.channel = 1 /\ A_On1.message = "NoteOn"
    /\ A_Off0.channel = 0 /\ A_Off0.message = "NoteOff"
    /\ (result.tag = "Event" /\ arg < 5) => out = <<A_On0>>
    /\ (result.tag = "Event" /\ arg < 10) => Len(out) <= 2
    /\ (result.tag = "Pending" /\ arg < 5) => out = <<A_On0>>
    /\ (result.tag = "Pending" /\ arg >= 5) => (arg < 10 /\ out = <<A_On0, A_On1>>)
    /\ result.tag = "Finished" => out = <<A_On0, A_On1, A_Off0>>
    /\ (result.tag = "Finished" /\ n_finished = 1) => arg >= 10

\* scenario A drained to the end at tick 10
C7_Witness ==
  /\ MIDI_DATA = ScenarioA
  /\ result.tag = "Finished"
  /\ arg = 10
  /\ out = <<A_On0, A_On1, A_Off0>>

(***************************************************************************)
(* Vocabulary of the player's claims                                       *)
(***************************************************************************)
AssertChannel == "assertion failed: channel < 4"
IsNote(e) == e.kind = "Midi" /\ e.message \in {"NoteOn", "NoteOff"}
SetsSlot(e) == e.kind = "Midi" /\ e.message = "NoteOn" /\ e.vel # 0
ClearsSlot(e) ==
  e.kind = "Midi" /\ (e.message = "NoteOff" \/ (e.message = "NoteOn" /\ e.vel = 0))

\* the tracks of the file the scheduler takes
PlayerTracks == 1..Min(Len(MIDI_DATA), MAX_TRACKS)

\* where the channel messages due at tick t or before lie in the file
DueBy(t) ==
  UNION {{<<i - 1, k>> : k \in {k \in 1..Len(MIDI_DATA[i]) :
                                  /\ MIDI_DATA[i][k].kind = "Midi"
                                  /\ SumDeltas(MIDI_DATA[i], k) <= t}}
         : i \in PlayerTracks}

\* C8: a note-on with non-zero velocity on channel c sets notes[c] to Some(key); a
\* note-off on channel c, or a note-on with velocity zero, sets notes[c] to None
\* whatever key it names; the event changes no other slot.
C8_VoiceTableUpdate ==
  \A k \in 1..Len(dispatched) :
    LET d == dispatched[k]
        c == d.event.channel
    IN  c \in Channels =>
          /\ SetsSlot(d.event) =>
               d.after.notes = [d.before.notes EXCEPT ![c] = Some(d.event.key)]
          /\ ClearsSlot(d.event) =>
               d.after.notes = [d.before.notes EXCEPT ![c] = None]

\* a note-off naming another key than the one sounding cleared its slot, while
\* another slot kept its key
C8_Witness ==
  \E k \in 1..Len(dispatched) :
    LET d == dispatched[k]
        c == d.event.channel
    IN  /\ d.event.message = "NoteOff"
        /\ c \in Channels
        /\ IsSome(d.before.notes[c])
        /\ d.before.notes[c] # Some(d.event.key)
        /\ d.after.notes[c] = None
        /\ \E o \in Channels \ {c} : IsSome(d.after.notes[o])

\* C9: a note-on or note-off whose channel is not below 4 panics at the assertion,
\* with every voice slot, PWM sequence and buffer as before the event, and the
\* program halts there; no panic comes from an index out of bounds.
C9_BadChannelPanics ==
  /\ \A k \in 1..Len(dispatched) :
       LET d == dispatched[k]
       IN  (IsNote(d.event) /\ d.event.channel >= NUM_CHANNELS) =>
             /\ d.panic = AssertChannel
             /\ d.after = d.before
             /\ k = Len(dispatched)
             /\ panic = AssertChannel
             /\ Audible(app_) = d.before
  /\ panic \in {"", AssertChannel}

\* the panic of a note-off on channel 5, while a note sounds
C9_Witness ==
  /\ panic = AssertChannel
  /\ dispatched[Len(dispatched)].event.message = "NoteOff"
  /\ \E c \in Channels : IsSome(notes[c]) /\ pwm_running[c]

\* C10: every tick interrupt adds one to the tick counter and, unless it panics,
\* ends with Pending or Finished having handled every channel message of absolute
\* tick at most the counter, each once; after Pending every pending event is
\* later than the counter.
C10_TickStep ==
  /\ tick = rtc_fired
  /\ (panic = "" /\ rtc_fired > 0) =>
       /\ last_step \in {"Pending", "Finished"}
       /\ {played[k] : k \in 1..Len(played)} = DueBy(tick)
       /\ Len(played) = Cardinality(DueBy(tick))
       /\ last_step = "Pending" =>
            (~NoPending /\ \A j \in PendingTracks : PendingTick(j) > tick)
       /\ last_step = "Finished" => NoPending

\* a step that handled events of two tracks, one of them due since tick 0, and
\* ended with Pending
C10_Witness ==
  /\ tick = rtc_fired
  /\ panic = ""
  /\ last_step = "Pending"
  /\ Len(dispatched) >= 2
  /\ AbsTick(dispatched[1].event) < tick
  /\ dispatched[1].event.at[1] # dispatched[2].event.at[1]

\* C11: a tick step in which the scheduler reports Finished returns with the four
\* voice slots empty, the tick timer stopped and the four PWM sequences stopped.
C11_FinishedSilences ==
  [][(rtc_fired' = rtc_fired + 1 /\ last_step' = "Finished") =>
       /\ notes' = [i \in Channels |-> None]
       /\ rtc_stopped'
       /\ \A i \in Channels : ~pwm_running'[i]]_vars

\* the step that reported Finished had started a sequence itself: the last event
\* of the file was a note-on
C11_Witness ==
  /\ last_step = "Finished"
  /\ presses = 0
  /\ Len(dispatched) >= 1
  /\ \E i \in Channels : dispatched[Len(dispatched)].after.pwm_running[i]
  /\ \A i \in Channels : ~pwm_running[i]

NoChannelActive(n) == \A i \in Channels : n[i] = None

Writers == {i \in 1..Len(stack) : stack[i].pc = "fill"}

InPWM0 == \E i \in 1..Len(stack) : stack[i].ctx = "PWM0"

\* C13: start-next-then-refill.  Within one invocation of the completion
\* handler, clearing the completion event of buffer k is followed at once by the
\* start of buffer 1-k; buffer k is written only after that start; and when the
\* handler has returned, every completion it served has had its buffer refilled.
C13_StartNextThenRefill ==
  /\ \A j \in 1..Len(inv_ops) :
       /\ inv_ops[j].op = "clear" =>
            /\ j + 1 <= Len(inv_ops)
            /\ inv_ops[j + 1] = Op("start", 1 - inv_ops[j].i)
            /\ j + 2 <= Len(inv_ops) => inv_ops[j + 2] = Op("fill", inv_ops[j].i)
       /\ inv_ops[j].op = "fill" =>
            /\ j >= 3
            /\ inv_ops[j - 2] = Op("clear", inv_ops[j].i)
            /\ inv_ops[j - 1] = Op("start", 1 - inv_ops[j].i)
       /\ inv_ops[j].op = "start" => j >= 2 /\ inv_ops[j - 1].op = "clear"
  /\ \A i \in Writers :
       stack[i].ctx = "PWM0" =>
         /\ Len(inv_ops) >= 2
         /\ inv_ops[Len(inv_ops) - 1] = Op("clear", stack[i].k)
         /\ inv_ops[Len(inv_ops)] = Op("start", 1 - stack[i].k)
  /\ (~InPWM0 /\ panic = "") => Len(inv_ops) % 3 = 0

\* a completion handler has returned after serving both completions: buffer 1
\* completed while it was refilling buffer 0
C13_Witness ==
  /\ ~InPWM0
  /\ panic = ""
  /\ inv_ops = <<Op("clear", 0), Op("start", 1), Op("fill", 0),
                 Op("clear", 1), Op("start", 0), Op("fill", 1)>>


\* the positions of the log that hold a sequence start
Starts == {j \in 1..Len(oplog) : oplog[j].op = "start"}

\* C14: pipeline start.  Buffer 0 and then buffer 1 are filled before any
\* sequence start; no buffer is being written by main once a sequence has been
\* started; the first sequence started is buffer 0; and buffer 1 is started, and
\* played, only after the completion event of buffer 0 has been cleared by its
\* handler.
C14_PipelineStart ==
  /\ Len(oplog) >= 1 => oplog[1] = Op("fill", 0)
  /\ Len(oplog) >= 2 => oplog[2] = Op("fill", 1)
  /\ Len(oplog) >= 3 => oplog[3] = Op("start", 0)
  /\ \A i \in Writers : stack[i].ctx = "main" => Starts = {} /\ pwm.playing = None
  /\ Len(oplog) < 3 => pwm.playing = None
  /\ \A j \in Starts :
       oplog[j].i = 1 => \E i \in 1..(j - 1) : oplog[i] = Op("clear", 0)
  /\ pwm.playing = Some(1) => \E i \in 1..Len(oplog) : oplog[i] = Op("clear", 0)

\* buffer 1 is playing, started by the handler of the first completion
C14_Witness ==
  /\ oplog = <<Op("fill", 0), Op("fill", 1), Op("start", 0),
               Op("clear", 0), Op("start", 1)>>
  /\ pwm.playing = Some(1)


\* Buffer k is Streaming, owned by the hardware, from the start of its sequence
\* until the handler has cleared its completion event; otherwise it is Filling,
\* owned by software.
Streaming(k) == pwm.playing = Some(k) \/ pwm.events_seqend[k]
Filling(k) == ~Streaming(k)

C16_Continuity ==
  LET period == Max(NoteGen_period(note_gen), 1)
      n == Len(fill_hist)
  IN  /\ n >= 1 =>
           /\ fill_hist[n].note = note_gen.note
           /\ note_gen.offset = (fill_hist[n].c + BUFFER_SIZE) % period
      /\ n = 2 =>
           LET c == fill_hist[1].c
               long == fill_span(note_gen.note, c, period, 2 * BUFFER_SIZE)
           IN  /\ fill_hist[2].c = (c + BUFFER_SIZE) % period
               /\ fill_hist[2].idx # fill_hist[1].idx
               /\ \A i \in 1..BUFFER_SIZE :
                    /\ note_gen.buffers[fill_hist[1].idx][i] = long[i]
                    /\ note_gen.buffers[fill_hist[2].idx][i] = long[BUFFER_SIZE + i]

\* two consecutive fills of one note, the first from a cursor inside the period,
\* the second after the cursor has wrapped; the wave is not constant
C16_Witness ==
  /\ Len(fill_hist) = 2
  /\ fill_hist[1].c > 0
  /\ fill_hist[2].c < fill_hist[1].c
  /\ note_gen.offset # 0
  /\ \E i \in 1..BUFFER_SIZE :
       note_gen.buffers[fill_hist[2].idx][i] # note_gen.buffers[fill_hist[1].idx][i]


\* C19: every handler runs its critical section to completion.  No frame that
\* another handler has preempted stands inside a critical section, so no two
\* accesses to the shared state interleave; a mutable borrow is held only by the
\* running frame inside its critical section; and no borrow_mut ever finds the
\* cell already borrowed.
C19_CriticalSections ==
  /\ \A i \in 1..(Len(stack) - 1) : stack[i].pc \notin {"fill", "free"}
  /\ borrows # {} => Len(stack) >= 1 /\ stack[Len(stack)].pc \in {"fill", "free"}
  /\ Cardinality(borrows) <= 1
  /\ panic # BorrowMutError

\* the tick handler of the MIDI player holds APP inside its critical section
\* while the button interrupt is pending
C19_Witness ==
  /\ program = "midi_player"
  /\ panic = ""
  /\ top(pipe_).ctx = "RTC0"
  /\ top(pipe_).pc = "free"
  /\ borrows = {"APP"}
  /\ "GPIOTE" \in nvic_pending


(***************************************************************************)
(* The synth cursor (SpecNoteGen)                                          *)
(***************************************************************************)
\* C17: the cursor is 0 after every step that changes the note, and a step that
\* leaves the note unchanged leaves the cursor where it was or advances it by
\* BUFFER_SIZE modulo the period.
C17_ResetOnlyOnNoteChange ==
  [][LET period == Max(NoteGen_period(note_gen), 1)
     IN  /\ note_gen'.note # note_gen.note => note_gen'.offset = 0
         /\ note_gen'.note = note_gen.note =>
              note_gen'.offset \in {note_gen.offset,
                                    (note_gen.offset + BUFFER_SIZE) % period}]_vars


(***************************************************************************)
(* The buttons (SpecButtons)                                               *)
(***************************************************************************)
\* C21: every button interrupt of the MIDI player taken while channel 0 sounds
\* key k returns with channel 0 at k + 1 (button A), k - 1 (button B) or k (both
\* buttons, one step up and one down), its PWM sequence running on the words of
\* the new key; every button press of the tone generator moves the note by
\* exactly one.
C21_ButtonSemitone ==
  [][/\ (program = "" /\ presses' = presses + 1 /\ IsSome(notes[0])) =>
          LET k == Unwrap(notes[0])
          IN  /\ panic' = ""
              /\ notes'[0] \in {Some(k + 1), Some(k - 1), Some(k)}
              /\ pwm_running'[0]
              /\ BUFFER'[0] = note_to_buf(Unwrap(notes'[0]))
     /\ (program = "tone_generator" /\ presses' = presses + 1) =>
          note_gen'.note \in {note_gen.note + 1, note_gen.note - 1}]_vars


(***************************************************************************)
(* Completion events (SpecPipeFair)                                        *)
(***************************************************************************)
\* this step is the handler serving the completion of buffer k
ServedNow(k) ==
  /\ Len(inv_ops') > Len(inv_ops)
  /\ \E j \in (Len(inv_ops) + 1)..Len(inv_ops') : inv_ops'[j] = Op("clear", k)

\* this step is the hardware completing buffer k
CompletedNow(k) == pwm.playing = Some(k) /\ pwm'.playing = None

C22_Step ==
  \A k \in Buffers :
    /\ ServedNow(k) => pwm.events_seqend[k] /\ ~pwm'.events_seqend[k]
    /\ CompletedNow(k) => ~pwm.events_seqend[k] /\ pwm'.events_seqend[k]
    /\ (pwm.events_seqend[k] /\ ~pwm'.events_seqend[k]) => ServedNow(k)
    /\ (~pwm.events_seqend[k] /\ pwm'.events_seqend[k]) => CompletedNow(k)

Consumed ==
  UNION {{Located(MIDI_DATA)[i][k] :
            k \in 1..(Len(MIDI_DATA[i]) - Len(tracks[i])
                      - (IF IsSome(next_event[i - 1]) THEN 1 ELSE 0))} :
         i \in 1..Min(Len(MIDI_DATA), MAX_TRACKS)}

\* C23: events that are no note are skipped.  In every tick step, an event
\* handed to handle_midi_event that is neither note-on nor note-off leaves the
\* voice slots, the running PWM sequences and their words as they were and
\* raises no panic; an event that is no channel message is never handed over;
\* a step that ends Pending and met no note changes no slot and no sequence;
\* and a finished step has taken every event from its track, skipped ones too.
C23_NonNoteSkipped ==
  [][rtc_fired' = rtc_fired + 1 =>
       /\ \A j \in 1..Len(dispatched') :
            /\ dispatched'[j].event.kind = "Midi"
            /\ ~IsNote(dispatched'[j].event) =>
                 /\ dispatched'[j].after = dispatched'[j].before
                 /\ dispatched'[j].panic = ""
       /\ (last_step' = "Pending" /\ \A j \in 1..Len(dispatched') :
                                        ~IsNote(dispatched'[j].event)) =>
            /\ notes' = notes
            /\ pwm_running' = pwm_running
            /\ BUFFER' = BUFFER
       /\ last_step' = "Finished" =>
            \A i \in 1..Min(Len(MIDI_DATA), MAX_TRACKS) :
              tracks'[i] = <<>> /\ next_event'[i - 1] = None]_vars

\* a controller message was handed over while channel 0 was sounding, and a
\* meta event before it was taken from the track without being handed over
C23_Witness ==
  /\ rtc_fired = 2
  /\ Len(dispatched) = 1 /\ dispatched[1].event.message = "Controller"
  /\ IsSome(dispatched[1].before.notes[0]) /\ dispatched[1].before.pwm_running[0]
  /\ dispatched[1].after = dispatched[1].before
  /\ \E e \in Consumed : e.kind = "Meta"

\* the largest sample a player holds in its buffers
MaxSample ==
  IF program = "tone_generator"
    THEN CHOOSE m \in 0..65535 :
           /\ \E b \in Buffers, i \in 1..BUFFER_SIZE : note_gen.buffers[b][i] = m
           /\ \A b \in Buffers, i \in 1..BUFFER_SIZE : note_gen.buffers[b][i] <= m
    ELSE CHOOSE m \in 0..65535 :
           /\ \E b \in Buffers, i \in 1..BUF_LEN : BUFFERS[b][i] = m
           /\ \A b \in Buffers, i \in 1..BUF_LEN : BUFFERS[b][i] <= m

\* the countertop the PWM is programmed with
Countertop ==
  IF program = "tone_generator" THEN PWM_COUNTER_TOP ELSE pwm_countertop

\* C24: every sample held in a sample buffer is at most the countertop the PWM
\* is programmed with, in every reachable state of the three players.
C24_SamplesInRange == MaxSample <= Countertop

\* half within the truncation of the two periods: each is cut to an integer, so
\* the shorter one lies within one unit of half the longer one
HalfOf(p, p12) == p - 2 * p12 \in -2..2

\* C25: one octave halves the period.  Whenever the MIDI player sounds keys k
\* and k + 12, the countertop loaded for k + 12 is half the countertop loaded
\* for k, and the period the NoteGen computes at note k + 12 is half the period
\* it computes at note k, each within the truncation to an integer.
C25_OctaveHalvesPeriod ==
  /\ \A i, j \in Channels :
       (/\ IsSome(notes[i]) /\ IsSome(notes[j])
        /\ pwm_running[i] /\ pwm_running[j]
        /\ Unwrap(notes[j]) = Unwrap(notes[i]) + 12) =>
          HalfOf(BUFFER[i][4], BUFFER[j][4])
  /\ program = "tone_generator" =>
       \A a, b \in 1..Len(out) :
         out[b].note = out[a].note + 12 => HalfOf(out[a].period, out[b].period)

\* the NoteGen was asked at note 57 and at note 69: periods 200 and 99, where
\* the rounding of the frequency shows
C25_Witness ==
  /\ program = "tone_generator"
  /\ out = <<[note |-> 57, period |-> 200], [note |-> 69, period |-> 99]>>

\* the MIDI player sounds middle C and the C above it
C25_WitnessMidi ==
  /\ program = ""
  /\ notes[0] = Some(MIDDLE_C) /\ notes[1] = Some(MIDDLE_C + 12)
  /\ BUFFER[0][4] = 2003 /\ BUFFER[1][4] = 1001

\* the channels that hold a key, and the highest key held
ActiveChannels == {i \in Channels : IsSome(notes[i])}
HighestKey ==
  CHOOSE k \in 0..U8_MAX :
    /\ \E i \in ActiveChannels : Unwrap(notes[i]) = k
    /\ \A i \in ActiveChannels : Unwrap(notes[i]) <= k

\* the PWMs that drive the speaker pin: setup gives all four the same pin, and
\* each one that has been started plays the words of its own buffer
Driving == {i \in Channels : pwm_running[i]}

\* C26: with more than one channel active, the one voice of the speaker is the
\* highest active key: every PWM that drives the speaker pin plays the words of
\* that key.
C26_HighestKeySounds ==
  (panic = "" /\ Cardinality(ActiveChannels) > 1) =>
     \A i \in Driving : BUFFER[i] = note_to_buf(HighestKey)

\* play() has reached its idle loop
Idle == stack = <<Frame("main", "wfi", 0)>>

\* C27: when play() has completed setup and start, the tick timer is running:
\* the counter of RTC0 has been started and its TICK interrupt is enabled.
C27_TimerRunning ==
  (program = "midi_player" /\ Idle) => (rtc_regs.started /\ rtc_regs.intenset_tick)

\* C28: the divisor programmed into the tick timer is the one of the
\* ticks-per-second value of the file's header timing.
C28_RateFromHeader ==
  (program = "midi_player" /\ Idle) =>
     rtc_regs.prescaler = timer_prescaler(header_ticks_per_sec(timing))

\* the tick of the last event of the file: the largest sum of deltas over the
\* tracks the scheduler takes
LastTick ==
  LET n == Min(Len(MIDI_DATA), MAX_TRACKS)
  IN  IF n = 0
        THEN 0
        ELSE CHOOSE m \in {SumDeltas(MIDI_DATA[i], Len(MIDI_DATA[i])) : i \in 1..n} :
               \A i \in 1..n : SumDeltas(MIDI_DATA[i], Len(MIDI_DATA[i])) <= m

MergedTracks == 1..Min(Len(MIDI_DATA), MAX_TRACKS)

\* the places <<track, k>> of the channel-message events of the merged tracks
MidiPlaces ==
  UNION {{<<i - 1, k>> : k \in {k \in 1..Len(MIDI_DATA[i]) : MIDI_DATA[i][k].kind = "Midi"}} :
         i \in MergedTracks}

\* the places of the events returned so far
ReturnedPlaces == {out[a].at : a \in 1..Len(out)}

\* C30: the merge loses and duplicates nothing.  Every event returned is a
\* channel-message event of one of the first MAX_TRACKS tracks, as the file
\* holds it; no event is returned twice; events of the same track are returned
\* in the order of their track; and once Finished has been returned, every
\* channel-message event of these tracks has been returned.
C30_MergeComplete ==
  /\ \A a \in 1..Len(out) :
       /\ out[a].at \in MidiPlaces
       /\ out[a] = Located(MIDI_DATA)[out[a].at[1] + 1][out[a].at[2]]
  /\ \A a, b \in 1..Len(out) : a # b => out[a].at # out[b].at
  /\ \A a, b \in 1..Len(out) :
       (a < b /\ out[a].at[1] = out[b].at[1]) => out[a].at[2] < out[b].at[2]
  /\ result.tag = "Finished" => ReturnedPlaces = MidiPlaces

\* a file of two tracks, two notes in track 0 and one in track 1, was merged to
\* the end: the three notes were returned, those of track 0 in their order
C30_Witness ==
  /\ result.tag = "Finished"
  /\ Len(MIDI_DATA) = 2
  /\ Len(MIDI_DATA[1]) = 2 /\ Len(MIDI_DATA[2]) = 1
  /\ Len(out) = 3
  /\ ReturnedPlaces = {<<0, 1>>, <<0, 2>>, <<1, 1>>}
  /\ \E a, b \in 1..3 : a < b /\ out[a].at = <<0, 1>> /\ out[b].at = <<0, 2>>

\* a file with a meta event before the note of track 0 was merged to the end:
\* the meta event was not returned
C30_WitnessMeta ==
  /\ result.tag = "Finished"
  /\ Len(MIDI_DATA) = 2
  /\ Len(MIDI_DATA[1]) = 2 /\ MIDI_DATA[1][1].kind = "Meta"
  /\ ReturnedPlaces = {<<0, 2>>, <<1, 1>>}

\* a file of MAX_TRACKS + 1 tracks was merged to the end: the note of the
\* track beyond MAX_TRACKS was not returned
C30_WitnessBeyond ==
  /\ result.tag = "Finished"
  /\ Len(MIDI_DATA) = MAX_TRACKS + 1
  /\ Len(MIDI_DATA[MAX_TRACKS + 1]) = 1
  /\ MIDI_DATA[MAX_TRACKS + 1][1].kind = "Midi"
  /\ Len(out) = 1

(***************************************************************************)
(* After the end of playback                                               *)
(***************************************************************************)
\* C31: once a tick step has reported the end of playback, every later state
\* has the four voice slots empty and no PWM sequence running, whatever
\* interrupt is taken afterwards.
C31_SilentAfterFinished ==
  last_step = "Finished" =>
    /\ \A i \in Channels : notes[i] = None
    /\ \A i \in Channels : ~pwm_running[i]

\* C32: whenever no handler is running and the program has not panicked, PWM
\* channel i is running exactly if voice slot i holds a key, for each of the
\* four channels, and the buffer of a running channel holds the words of the
\* key in its slot.
C32_RunningIffNote ==
  panic = "" =>
    \A i \in Channels :
      /\ pwm_running[i] <=> IsSome(notes[i])
      /\ pwm_running[i] => BUFFER[i] = note_to_buf(Unwrap(notes[i]))

\* handlers have returned with one channel sounding its key and another
\* stopped after it had sounded
C32_Witness ==
  /\ panic = "" /\ rtc_fired >= 1
  /\ \E i, j \in Channels :
       /\ IsSome(notes[i]) /\ pwm_running[i]
       /\ BUFFER[i] = note_to_buf(Unwrap(notes[i]))
       /\ notes[j] = None /\ ~pwm_running[j] /\ BUFFER[j] # <<0, 0, 0, 0>>

(***************************************************************************)
(* Start-up                                                                *)
(***************************************************************************)
\* C33: no handler runs while the shared state it unwraps is uninitialized:
\* in every interleaving of main with the interrupts, no handler's unwrap of
\* APP, PWM or GPIOTE meets None.
C33_UnwrapSucceeds == panic # UnwrapNone

(***************************************************************************)
(* SpecRate: the rate buttons of the PCM player.  The player runs from the *)
(* state play_sound_data leaves, and its GPIOTE handler is taken up to     *)
(* MaxRatePresses times; the handler does all its work inside free().      *)
(***************************************************************************)
DivideByZero == "attempt to divide by zero"

\* configure_pwm on the statics [rate, countertop, panic]: the u32 division
\* `PWM_CLOCK_FREQ / (target_sample_rate * (refresh + 1))` panics on a zero
\* divisor.  The product stays below 2^32 for the rates of the model.
Pcm_configure_pwm(r) ==
  IF r.rate * (PCM_PWM_REFRESH + 1) = 0
    THEN [r EXCEPT !.panic = DivideByZero]
    ELSE [r EXCEPT !.countertop = configure_pwm(r.rate, PCM_PWM_REFRESH, r.countertop)]

\* the body of the GPIOTE handler of pcm_player.rs, given the two event flags:
\* up() and configure_pwm for button A, then down() and configure_pwm for
\* button B
Pcm_GPIOTE_handler(r, in0, in1) ==
  LET a == IF in0 THEN Pcm_configure_pwm([r EXCEPT !.rate = rate_up(@)]) ELSE r
  IN  IF a.panic # "" \/ ~in1
        THEN a
        ELSE Pcm_configure_pwm([a EXCEPT !.rate = rate_down(@)])

\* the audio data plays no part in the handler: one byte of it is enough
InitRate == InitSampled /\ program = "pcm_player" /\ AUDIO_DATA = <<0>>

\* the GPIOTE interrupt, raised with button A's event, button B's or both
Pcm_GPIOTE_taken(in0, in1) ==
  /\ program = "pcm_player"
  /\ panic = ""
  /\ presses < MaxRatePresses
  /\ in0 \/ in1
  /\ LET r == Pcm_GPIOTE_handler([rate |-> TARGET_SAMPLE_RATE,
                                  countertop |-> pwm_countertop,
                                  panic |-> panic], in0, in1)
     IN  /\ TARGET_SAMPLE_RATE' = r.rate
         /\ pwm_countertop' = r.countertop
         /\ panic' = r.panic
  /\ presses' = presses + 1
  /\ UNCHANGED <<midiRest, program, AUDIO_DATA, note_gen, pwm, gpiote, rtc,
                 nvic_pending, stored, stack, borrows, oplog, inv_ops, fill_hist,
                 timerVars, CURSOR, BUFFERS, calls>>

NextRate == \E in0, in1 \in BOOLEAN : Pcm_GPIOTE_taken(in0, in1)

SpecRate == InitRate /\ [][NextRate]_vars

\* C34: in the PCM player, whatever buttons are pressed, configure_pwm never
\* divides by zero and the rate never underflows: the divisor
\* TARGET_SAMPLE_RATE * (PWM_REFRESH + 1) is greater than 0 in every state.
C34_DivisorPositive ==
  /\ panic # DivideByZero
  /\ TARGET_SAMPLE_RATE * (PCM_PWM_REFRESH + 1) > 0

(***************************************************************************)
(* The key range (SpecButtons)                                             *)
(***************************************************************************)
\* C35: in the MIDI player the key of voice slot 0 never leaves its 8-bit
\* range: every button interrupt returns without a panic, with slot 0 holding
\* a key that differs by at most one from the key it held (middle C for an
\* empty slot), so that neither a raise at 255 nor a lowering at 0 wraps.
C35_KeyStaysInRange ==
  [][(program = "" /\ presses' = presses + 1) =>
       LET old == IF IsSome(notes[0]) THEN Unwrap(notes[0]) ELSE MIDDLE_C
       IN  /\ panic' = ""
           /\ IsSome(notes'[0])
           /\ Unwrap(notes'[0]) - old \in {-1, 0, 1}]_vars

(***************************************************************************)
(* SpecToneButtons: the buttons of the tone generator.  The hardware sets  *)
(* the two button events at any time; the GPIOTE handler, which does all   *)
(* its work inside free(), is taken while an event is set, up to MaxServed *)
(* times; completions are served as in SpecNoteGen.                        *)
(***************************************************************************)
\* a falling edge on button b sets IN[b]
Tone_button_edge(b) ==
  /\ program = "tone_generator"
  /\ ~gpiote.events_in[b]
  /\ gpiote' = [gpiote EXCEPT !.events_in[b] = TRUE]
  /\ UNCHANGED <<midiRest, panic, program, AUDIO_DATA, CURSOR, BUFFERS, pwm, rtc,
                 nvic_pending, stored, stack, borrows, oplog, inv_ops, fill_hist,
                 rateVars, timerVars, note_gen, calls, presses>>

\* the GPIOTE handler: handle_button_input on the App.  History: oplog keeps
\* the event flags and the note the last invocation found
Tone_GPIOTE_served ==
  /\ program = "tone_generator"
  /\ presses < MaxServed
  /\ gpiote.events_in[0] \/ gpiote.events_in[1]
  /\ LET s == App_handle_button_input(
                [note_gen |-> note_gen, fill_hist |-> fill_hist, gpiote |-> gpiote])
     IN  /\ note_gen' = s.note_gen
         /\ gpiote' = s.gpiote
         /\ fill_hist' = s.fill_hist
  /\ oplog' = <<[op |-> "button", events_in |-> gpiote.events_in,
                 note |-> note_gen.note]>>
  /\ presses' = presses + 1
  /\ UNCHANGED <<midiRest, panic, program, AUDIO_DATA, CURSOR, BUFFERS, pwm, rtc,
                 nvic_pending, stored, stack, borrows, inv_ops,
                 rateVars, timerVars, calls>>

NextToneButtons ==
  \/ \E b \in Buffers : Tone_button_edge(b)
  \/ Tone_GPIOTE_served
  \/ program = "tone_generator" /\ Call_fill_buffer

SpecToneButtons == InitNoteGen /\ [][NextToneButtons]_vars

\* C36: the note of the tone generator saturates.  Every handler invocation
\* that finds button A's event leaves the note one higher, or at 255 if it was
\* 255; one that finds only button B's event leaves it one lower, or at 0 if it
\* was 0; the note is in 0..255 in every state; and an invocation serves one
\* event only: it clears the event it has served and leaves the other as it
\* found it.
C36_NoteSaturates ==
  /\ [](note_gen.note \in 0..U8_MAX)
  /\ [][presses' = presses + 1 =>
          LET in0 == gpiote.events_in[0]
              note == note_gen.note
          IN  /\ in0 =>
                   /\ note_gen'.note = (IF note = U8_MAX THEN U8_MAX ELSE note + 1)
                   /\ gpiote'.events_in = [gpiote.events_in EXCEPT ![0] = FALSE]
              /\ ~in0 =>
                   /\ note_gen'.note = (IF note = 0 THEN 0 ELSE note - 1)
                   /\ gpiote'.events_in = [gpiote.events_in EXCEPT ![1] = FALSE]]_vars

\* the last invocation found both events set at note 255: it has served
\* button A, the note is still 255 and button B's event is still set
C36_Witness ==
  /\ oplog = <<[op |-> "button", events_in |-> [b \in Buffers |-> TRUE],
               note |-> U8_MAX]>>
  /\ note_gen.note = U8_MAX
  /\ gpiote.events_in[1] /\ ~gpiote.events_in[0]

\* the last invocation found button B's event at note 0: the note is still 0
C36_WitnessLow ==
  /\ oplog = <<[op |-> "button", events_in |-> [b \in Buffers |-> b = 1],
               note |-> 0]>>
  /\ note_gen.note = 0
  /\ presses = MaxServed

(***************************************************************************)
(* The order of the chunks (SpecPipe)                                      *)
(***************************************************************************)
\* the j-th operation of a pipeline that streams the buffers alternately and
\* refills each between two of its streamings: fill 0, fill 1, start 0, and
\* then, for the completions of buffer k = 0, 1, 0, ... in turn, clear k,
\* start 1 - k, fill k
PipelineOp(j) ==
  IF j = 1 THEN Op("fill", 0)
  ELSE IF j = 2 THEN Op("fill", 1)
  ELSE IF j = 3 THEN Op("start", 0)
  ELSE LET k == ((j - 4) \div 3) % 2
           r == (j - 4) % 3
       IN  IF r = 0 THEN Op("clear", k)
           ELSE IF r = 1 THEN Op("start", 1 - k)
           ELSE Op("fill", k)

\* this step starts the streaming of buffer k
StartsStreaming(k) == pwm'.playing = Some(k) /\ pwm.playing # Some(k)

AllNotes == 0..U8_MAX

InitCursor ==
  /\ MidiParked
  /\ program = "tone_generator"
  /\ AUDIO_DATA = <<>>
  /\ note_gen \in {NoteGen_at(n) : n \in AllNotes}
  /\ CURSOR = 0
  /\ BUFFERS = ZeroBuffers
  /\ pwm = PwmReset
  /\ gpiote = GpioteReset
  /\ rtc = RtcReset
  /\ nvic_pending = {}
  /\ stored = {"APP"}
  /\ stack = <<Frame("main", "wfi", 0)>>
  /\ borrows = {}
  /\ oplog = <<>>
  /\ inv_ops = <<>>
  /\ fill_hist = <<>>
  /\ calls = 0
  /\ TimerParked
  /\ RateDeclared

SpecCursor == InitCursor /\ [][NextNoteGen]_vars

\* `self.period().max(1)`: the period fill_buffer divides by
FillPeriod == Max(NoteGen_period(note_gen), 1)

\* C38: the cursor range.  In every state, so after every fill_buffer and every
\* set_note, the cursor is at least 0 and below max(period, 1) of the current
\* note, and the period fill_buffer takes its modulus by and divides by is
\* never 0, for each note 0..255.
C38_CursorInRange ==
  /\ FillPeriod >= 1
  /\ note_gen.offset >= 0
  /\ note_gen.offset < FillPeriod
  /\ \A n \in AllNotes : Max(PERIOD[n + 1], 1) >= 1

\* two buffers have been filled at note 255, whose period() is 0: the modulus
\* was taken by 1 and the cursor is 0
C38_Witness ==
  /\ calls >= 2
  /\ note_gen.note = U8_MAX
  /\ NoteGen_period(note_gen) = 0
  /\ note_gen.offset = 0

\* buffers have been filled at a note whose period is shorter than a buffer
C38_WitnessShort ==
  /\ calls >= 2
  /\ NoteGen_period(note_gen) \in 2..(BUFFER_SIZE - 1)
  /\ note_gen.offset > 0

\* buffers have been filled at a note whose period is longer than a buffer
C38_WitnessLong ==
  /\ calls >= 2
  /\ NoteGen_period(note_gen) > 2 * BUFFER_SIZE
  /\ note_gen.offset = 2 * BUFFER_SIZE

(***************************************************************************)
(* A note change by button (SpecPipe)                                      *)
(***************************************************************************)
\* this step is the GPIOTE handler of the tone generator: it returns or halts
ButtonHandled ==
  /\ program = "tone_generator"
  /\ top(pipe_).ctx = "GPIOTE"
  /\ Len(stack') < Len(stack) \/ panic' # panic

\* the samples fill_buffer generates for a note from a cursor
ChunkOf(note, c) == fill_span(note, c, Max(PERIOD[note + 1], 1), BUFFER_SIZE)

\* C39: a note change by button modifies the note and the cursor only.  The
\* step of the button handler that finds a button event latched moves the note
\* by at most one and sets the cursor to 0 (a run that finds none, after a
\* second edge of a button already latched, changes neither);
\* it leaves both sample buffers, the volume, the sequence the PWM plays and
\* its completion events as they were.  A buffer changes only in a step that
\* fills it, with the samples of the note current at that step: the buffers
\* filled before the change keep the old note's samples until they are
\* refilled.
C39_SetNoteFrame ==
  /\ [][ButtonHandled =>
          /\ panic' = ""
          /\ IF gpiote.events_in[0] \/ gpiote.events_in[1]
               THEN /\ note_gen'.note - note_gen.note \in {-1, 0, 1}
                    /\ note_gen'.offset = 0
               ELSE /\ note_gen'.note = note_gen.note
                    /\ note_gen'.offset = note_gen.offset
          /\ note_gen'.buffers = note_gen.buffers
          /\ note_gen'.volume = note_gen.volume
          /\ pwm' = pwm]_vars
  /\ [][(program = "tone_generator" /\ note_gen'.buffers # note_gen.buffers) =>
          /\ ~ButtonHandled
          /\ note_gen'.note = note_gen.note
          /\ \E k \in Buffers :
               /\ note_gen'.buffers[k] = ChunkOf(note_gen.note, note_gen.offset)
               /\ note_gen'.buffers[1 - k] = note_gen.buffers[1 - k]]_vars

\* after a press of button A at note 69, one buffer has been refilled with the
\* samples of note 70 from cursor 0, and the other still holds samples of
\* note 69
C39_Witness ==
  /\ program = "tone_generator"
  /\ presses = 1
  /\ note_gen.note = NOTE_START + 1
  /\ Len(fill_hist) = 1
  /\ LET k == fill_hist[1].idx
     IN  /\ note_gen.buffers[k] = ChunkOf(NOTE_START + 1, 0)
         /\ \E c \in 0..(PERIOD[NOTE_START + 1] - 1) :
              note_gen.buffers[1 - k] = ChunkOf(NOTE_START, c)
         /\ note_gen.buffers[1 - k] # note_gen.buffers[k]

============================================================================
